---------------------------- MODULE Spec2Model ----------------------------
(***************************************************************************)
(* Verification model of the crypto-scanner polling scripts.               *)
(*                                                                         *)
(* Specification Spec: the watchlist scanners BB_RSI, RSI_MACD,            *)
(* BB_SuperTrend and BollingerBandBuySell.  One run of a script is one     *)
(* poll cycle: main() loads the persisted watchlists, submits one task     *)
(* per pair to a thread pool, handles the results in completion order,     *)
(* saves the watchlists and sends one Telegram message.  The variable      *)
(* script selects which script a behaviour runs.                           *)
(*                                                                         *)
(* Specification SpecScan: ReversalBuySell, whose workers mutate the       *)
(* shared watchlists statement by statement, and SupertrendMomentum.       *)
(*                                                                         *)
(* Specification SpecRisk: the risk-sizing functions (leverage, targets)   *)
(* as pure functions of entry, stop and side, and the CCISetup signal      *)
(* rule as a pure function of the frame.                                   *)
(*                                                                         *)
(* Specification SpecInd: the indicator functions (Supertrend,             *)
(* Heikin-Ashi, RSI, the directional movements of ADX), computed bar by    *)
(* bar as their loops do.                                                  *)
(*                                                                         *)
(* Specification SpecLoad: main() loading its watchlist files, for every   *)
(* content a file can hold.                                                *)
(*                                                                         *)
(* Specification SpecTrigger: the evaluations of RSI_Buy_Sell within one   *)
(* process, with its module-level trigger-once state.                      *)
(*                                                                         *)
(* Candle frames: a fetched frame is a sequence of rows (index 1 is the    *)
(* oldest bar, index Len(df) the live bar), each row carrying the          *)
(* indicator columns the script has computed for that bar.  The indicator  *)
(* columns of one row are independent inputs: raw wicks and the price      *)
(* history before the bar are free, so every combination the model         *)
(* enumerates is produced by some candle series.  Prices and indicator     *)
(* values are exact integers; a NaN column compares false everywhere and   *)
(* is covered by a value that makes the same comparisons false.            *)
(***************************************************************************)
EXTENDS Integers, Sequences, FiniteSets, TLC

VARIABLES
    script,             \* which scanner script this behaviour runs
    pc,                 \* orchestrating thread: "idle" | "pool" | "crashed"
    task,               \* per pair: the task main() submits for it ("none": no task)
    market,             \* per pair: what the exchange answers during this cycle
    future,             \* per pair: "none" | "running" | "done" | "collected"
    result,             \* per pair: what the task returned (or raised)
    buy_watchlist,      \* in-memory BUY watchlist of the running cycle
    sell_watchlist,     \* in-memory SELL watchlist of the running cycle
    st_buy_watchlist,   \* BB_SuperTrend: in-memory Supertrend_buy_watchlist
    st_sell_watchlist,  \* BB_SuperTrend: in-memory Supertrend_sell_watchlist
    new_buy_candidates, \* pairs to add to the BUY watchlist at the end
    new_sell_candidates,
    buy_signals,        \* alerts collected in this cycle (list, in order)
    sell_signals,
    buy_file,           \* persisted BUY watchlist (JSON file)
    sell_file,          \* persisted SELL watchlist
    st_buy_file,        \* persisted Supertrend_buy_watchlist
    st_sell_file,       \* persisted Supertrend_sell_watchlist
    sent,               \* Telegram message(s) of the last finished cycle
    prev_sent,          \* message of the cycle before, kept when the bars repeat
    repeat,             \* TRUE iff this cycle sees the same bars as the last one
    wpc,                \* ReversalBuySell: per pair, where its worker stands in process_pair
    tmp,                \* ReversalBuySell: per pair, the filtered list a worker has built
    rebound,            \* ReversalBuySell: whether main() has rebound buy_watch / sell_watch
    own,                \* ReversalBuySell: the lists main()'s names refer to once rebound
    call,               \* pure functions: the call under check (function, arguments)
    ret                 \* pure functions: what the call returned so far

vars == << script, pc, task, market, future, result,
           buy_watchlist, sell_watchlist, st_buy_watchlist, st_sell_watchlist,
           new_buy_candidates, new_sell_candidates, buy_signals, sell_signals,
           buy_file, sell_file, st_buy_file, st_sell_file,
           sent, prev_sent, repeat, wpc, tmp, rebound, own, call, ret >>

memory == << buy_watchlist, sell_watchlist, st_buy_watchlist, st_sell_watchlist,
             new_buy_candidates, new_sell_candidates, buy_signals, sell_signals >>

files == << buy_file, sell_file, st_buy_file, st_sell_file >>

\* State of the ReversalBuySell workers and of the risk-sizing calls.
rbs == << wpc, tmp, rebound, own >>
pure == << call, ret >>

\* The active instruments every cycle scans (CoinList).
Pairs == {"BTC", "ETH"}

\* df.iloc[-k] of a frame: k = 1 is the live bar, k = 2 the last closed bar.
iloc(df, k) == df[Len(df) - k + 1]

\* A row that no handler looks at (bars older than the ones a script reads,
\* and the live bar in scripts that never read it).
Filler == [filler |-> TRUE]

NoMessage == [buy |-> << >>, sell |-> << >>]

\* ------------------------------------------------------------------------
\* BB_RSI.py
\* ------------------------------------------------------------------------

\* Rows of the frame fetch_coin_data returns (rsi, Heikin-Ashi extremes and
\* Bollinger bands of one bar).
BB_RSI_Rows ==
    [rsi : {40, 50, 60}, HA_Low : {8, 12}, lower : {10}, HA_High : {18, 22}, upper : {20}]

\* What the exchange can answer for one pair: an error (fetch_coin_data
\* raises), no data (returns None), or a frame.  A frame of two rows is too
\* short for main().
BB_RSI_Market ==
    {[kind |-> "raise", df |-> << >>], [kind |-> "none", df |-> << >>]}
    \cup {[kind |-> "df", df |-> <<r, Filler>>] : r \in {[rsi |-> 60, HA_Low |-> 8, lower |-> 10, HA_High |-> 22, upper |-> 20]}}
    \cup {[kind |-> "df", df |-> <<Filler, r, Filler>>] : r \in BB_RSI_Rows}

\* fetch_coin_data(pair): the worker task.
BB_RSI_fetch_coin_data_Stale(m) ==
    IF m.kind = "none"
    THEN [kind |-> "df", df |-> <<Filler, [rsi |-> 60, HA_Low |-> 8, lower |-> 10,
                                           HA_High |-> 22, upper |-> 20], Filler>>]
    ELSE m
BB_RSI_fetch_coin_data(m) == m

\* The confirmation tests of main(), on the last closed row.
BB_RSI_BuyConfirm(prev) == prev.rsi > 50
BB_RSI_SellConfirm(prev) == prev.rsi < 50

\* The entry (band touch) tests of main().
BB_RSI_BuyEntry(prev) == prev.HA_Low <= prev.lower
BB_RSI_SellEntry(prev) == prev.HA_High >= prev.upper

\* Whether the BUY branch alerts for pair: membership is tested on the
\* in-memory watchlist before this cycle's candidates are merged.
BB_RSI_BuyFires(pair, prev, watch, cand) == pair \in watch /\ BB_RSI_BuyConfirm(prev)
BB_RSI_SellFires(pair, prev, watch, cand) == pair \in watch /\ BB_RSI_SellConfirm(prev)

\* Body of the as_completed loop of main() for one finished future.
BB_RSI_Collect(p) ==
    /\ script = "BB_RSI"
    /\ pc = "pool"
    /\ future[p] = "done"
    /\ future' = [future EXCEPT ![p] = "collected"]
    /\ LET r == result[p] IN
       IF r.kind # "df" \/ Len(r.df) < 3
       THEN UNCHANGED memory
       ELSE LET prev == iloc(r.df, 2)
                buy == BB_RSI_BuyFires(p, prev, buy_watchlist, new_buy_candidates)
                sell == BB_RSI_SellFires(p, prev, sell_watchlist, new_sell_candidates)
                a == [pair |-> p]
            IN /\ buy_signals' = IF buy THEN Append(buy_signals, a) ELSE buy_signals
               /\ buy_watchlist' = IF buy THEN buy_watchlist \ {p} ELSE buy_watchlist
               /\ new_buy_candidates' =
                      IF BB_RSI_BuyEntry(prev) THEN new_buy_candidates \cup {p}
                      ELSE new_buy_candidates
               /\ sell_signals' = IF sell THEN Append(sell_signals, a) ELSE sell_signals
               /\ sell_watchlist' = IF sell THEN sell_watchlist \ {p} ELSE sell_watchlist
               /\ new_sell_candidates' =
                      IF BB_RSI_SellEntry(prev) THEN new_sell_candidates \cup {p}
                      ELSE new_sell_candidates
               /\ UNCHANGED <<st_buy_watchlist, st_sell_watchlist>>
    /\ UNCHANGED <<script, pc, task, market, result, files, sent, prev_sent, repeat, rbs, pure>>

\* ------------------------------------------------------------------------
\* RSI_MACD.py
\* ------------------------------------------------------------------------
RSI_OVERBOUGHT == 70
RSI_OVERSOLD == 30

\* Rows of the frame: MACD line, signal line, RSI and volume of one bar.
RSI_MACD_PrevRows == [macd : {-1, 1}, signal : {0}, rsi : {50}, volume : {1}]
RSI_MACD_LastRows == [macd : {-1, 1}, signal : {0}, rsi : {20, 50, 80}, volume : {1, 2}]

\* An error (also an empty or malformed answer: the column access raises),
\* or a frame whose last two rows are the last closed bar and the live bar.
RSI_MACD_Market ==
    {[kind |-> "raise", df |-> << >>]}
    \cup {[kind |-> "df", df |-> <<a, b>>] : a \in RSI_MACD_PrevRows, b \in RSI_MACD_LastRows}

\* fetch_coin_data(pair): the worker task.  It reads the MACD and signal
\* lines at iloc[-2] and iloc[-1], and RSI, close and volume at iloc[-1].
RSI_MACD_fetch_coin_data(m) ==
    IF m.kind = "raise" THEN [kind |-> "raise"]
    ELSE LET prev == iloc(m.df, 2)
             last == iloc(m.df, 1)
         IN [kind |-> "data",
             volume |-> last.volume,
             macd_buy |-> prev.macd < prev.signal /\ last.macd > last.signal,
             macd_sell |-> prev.macd > prev.signal /\ last.macd < last.signal,
             rsi_buy |-> last.rsi <= RSI_OVERSOLD,
             rsi_sell |-> last.rsi >= RSI_OVERBOUGHT]

\* Whether the BUY branch alerts for pair: membership is tested on the
\* watchlist as loaded, not on this cycle's candidates.
RSI_MACD_BuyFires_Merged(pair, data, watch, cand) ==
    pair \in (watch \cup cand) /\ data.macd_buy
RSI_MACD_BuyFires(pair, data, watch, cand) == pair \in watch /\ data.macd_buy
RSI_MACD_SellFires(pair, data, watch, cand) == pair \in watch /\ data.macd_sell

\* Body of the as_completed loop of main() for one finished future.
RSI_MACD_Collect(p) ==
    /\ script = "RSI_MACD"
    /\ pc = "pool"
    /\ future[p] = "done"
    /\ future' = [future EXCEPT ![p] = "collected"]
    /\ LET data == result[p] IN
       IF data.kind = "raise"
       THEN UNCHANGED memory
       ELSE LET cb == IF data.rsi_buy THEN new_buy_candidates \cup {p} ELSE new_buy_candidates
                cs == IF data.rsi_sell THEN new_sell_candidates \cup {p} ELSE new_sell_candidates
                buy == RSI_MACD_BuyFires(p, data, buy_watchlist, cb)
                sell == RSI_MACD_SellFires(p, data, sell_watchlist, cs)
                a == [pair |-> p, volume |-> data.volume]
            IN /\ new_buy_candidates' = cb
               /\ new_sell_candidates' = cs
               /\ buy_signals' = IF buy THEN Append(buy_signals, a) ELSE buy_signals
               /\ buy_watchlist' = IF buy THEN buy_watchlist \ {p} ELSE buy_watchlist
               /\ sell_signals' = IF sell THEN Append(sell_signals, a) ELSE sell_signals
               /\ sell_watchlist' = IF sell THEN sell_watchlist \ {p} ELSE sell_watchlist
               /\ UNCHANGED <<st_buy_watchlist, st_sell_watchlist>>
    /\ UNCHANGED <<script, pc, task, market, result, files, sent, prev_sent, repeat, rbs, pure>>

\* ------------------------------------------------------------------------
\* BB_SuperTrend.py
\* ------------------------------------------------------------------------

\* Rows of the frame process_coin returns: close, Bollinger bands, RSI and
\* the Supertrend direction ("NONE" is the None of a bar before the first
\* band crossing).
BB_ST_Rows ==
    [close : {5, 15, 25}, upper : {20}, lower : {10}, rsi : {50, 54},
     Trend : {"NONE", "BUY", "SELL"}]

\* Indicators.supertrend copies the previous Trend unless the close crosses
\* a band, so a Trend never returns to None.
BB_ST_TrendSteps ==
    {<<"NONE", "NONE">>, <<"BUY", "BUY">>, <<"SELL", "SELL">>,
     <<"SELL", "BUY">>, <<"BUY", "SELL">>}

\* fetch_coin_data answers None on any error or empty answer; a frame is
\* <<second previous bar, last closed bar, live bar>>.
BB_ST_Market ==
    {[kind |-> "none", df |-> << >>]}
    \cup {[kind |-> "df",
           df |-> <<[close |-> 15, upper |-> 20, lower |-> 10, rsi |-> 50, Trend |-> x[1][1]],
                    x[2], Filler>>] :
            x \in {y \in BB_ST_TrendSteps \X BB_ST_Rows : y[2].Trend = y[1][2]}}

\* process_coin(pair): the worker task.
BB_ST_process_coin(m) ==
    IF m.kind = "df" /\ Len(m.df) >= 3 THEN m ELSE [kind |-> "none", df |-> << >>]

\* Trend flip tests of main() between the second previous and the last
\* closed bar.
BB_ST_FlipBuy(last, prev) == last.Trend = "BUY" /\ prev.Trend # "BUY"
BB_ST_FlipSell(last, prev) == last.Trend = "SELL" /\ prev.Trend # "SELL"

\* The four alert sites of main(): the flip alert of buy_watchlist /
\* sell_watchlist and the re-check alert of the Supertrend watchlists.
BB_ST_BuyFires(pair, last, prev, watch) ==
    pair \in watch /\ BB_ST_FlipBuy(last, prev) /\ last.rsi > 52
BB_ST_SellFires(pair, last, prev, watch) ==
    pair \in watch /\ BB_ST_FlipSell(last, prev) /\ last.rsi < 52
BB_ST_StBuyFires(pair, last, stwatch) ==
    pair \in stwatch /\ last.Trend = "BUY" /\ last.rsi > 52
BB_ST_StSellFires(pair, last, stwatch) ==
    pair \in stwatch /\ last.Trend = "SELL" /\ last.rsi < 52

\* Body of the as_completed loop of main() for one finished future.
BB_ST_Collect(p) ==
    /\ script = "BB_SuperTrend"
    /\ pc = "pool"
    /\ future[p] = "done"
    /\ future' = [future EXCEPT ![p] = "collected"]
    /\ LET r == result[p] IN
       IF r.kind # "df"
       THEN UNCHANGED memory
       ELSE LET last == iloc(r.df, 2)
                prev == iloc(r.df, 3)
                buy == BB_ST_BuyFires(p, last, prev, buy_watchlist)
                sell == BB_ST_SellFires(p, last, prev, sell_watchlist)
                \* Supertrend watchlists after the flip branch's add
                stb == IF p \in buy_watchlist /\ BB_ST_FlipBuy(last, prev) /\ ~(last.rsi > 52)
                       THEN st_buy_watchlist \cup {p} ELSE st_buy_watchlist
                sts == IF p \in sell_watchlist /\ BB_ST_FlipSell(last, prev) /\ ~(last.rsi < 52)
                       THEN st_sell_watchlist \cup {p} ELSE st_sell_watchlist
                stbuy == BB_ST_StBuyFires(p, last, stb)
                stsell == BB_ST_StSellFires(p, last, sts)
                a == [pair |-> p]
            IN /\ new_sell_candidates' =
                      IF last.close > last.upper THEN new_sell_candidates \cup {p}
                      ELSE new_sell_candidates
               /\ new_buy_candidates' =
                      IF last.close < last.lower THEN new_buy_candidates \cup {p}
                      ELSE new_buy_candidates
               /\ buy_watchlist' = IF buy THEN buy_watchlist \ {p} ELSE buy_watchlist
               /\ sell_watchlist' = IF sell THEN sell_watchlist \ {p} ELSE sell_watchlist
               /\ st_buy_watchlist' = IF stbuy THEN stb \ {p} ELSE stb
               /\ st_sell_watchlist' = IF stsell THEN sts \ {p} ELSE sts
               /\ buy_signals' =
                      (IF buy THEN Append(buy_signals, a) ELSE buy_signals)
                      \o (IF stbuy THEN <<a>> ELSE << >>)
               /\ sell_signals' =
                      (IF sell THEN Append(sell_signals, a) ELSE sell_signals)
                      \o (IF stsell THEN <<a>> ELSE << >>)
    /\ UNCHANGED <<script, pc, task, market, result, files, sent, prev_sent, repeat, rbs, pure>>

\* ------------------------------------------------------------------------
\* Risk sizing
\* ------------------------------------------------------------------------
\* Prices are exact integers counted in ticks, and the arithmetic on them is
\* exact.  Where a function rounds to d decimals, one tick is a third of
\* 10^-d, so that a price on the grid may or may not be a multiple of the
\* rounding quantum and no price lies half-way between two multiples.

\* Python's None, and a raised exception, as results.
None == [kind |-> "None"]

Abs(x) == IF x < 0 THEN -x ELSE x
\* The second argument, whichever is smaller.
Min_Second(a, b) == b

Min(a, b) == IF a <= b THEN a ELSE b

\* math.ceil(n / d) for d > 0.
CeilDiv(n, d) == -((-n) \div d)

\* round(n / d) for d > 0: to the nearest integer, a tie to the even one.
RoundDiv(n, d) ==
    LET q == n \div d
        r == n % d
    IN IF 2 * r < d THEN q
       ELSE IF 2 * r > d THEN q + 1
       ELSE IF q % 2 = 0 THEN q ELSE q + 1

\* round(x, d) of a price x in ticks of a third of 10^-d: the nearest
\* multiple of three ticks.
round(x) == ((x + 1) \div 3) * 3

\* Ticks per rupee where prices are rounded to 4 decimals.
TicksPerRupee == 3 * 10000

\* --- BollingerBandBuySell.calculate_trade_levels -------------------------
BBBS_CAPITAL_RS == 600
BBBS_MAX_LOSS_RS == 50
BBBS_MAX_ALLOWED_LEVERAGE == 10
BBBS_RR_LEVELS == <<2, 3, 4>>

\* The targets of one side: entry + r * risk (BUY) or entry - r * risk.
BBBS_targets(entry, risk, side) ==
    [i \in DOMAIN BBBS_RR_LEVELS |->
        round(IF side = "BUY" THEN entry + BBBS_RR_LEVELS[i] * risk
              ELSE entry - BBBS_RR_LEVELS[i] * risk)]

\* entry and sl in ticks, entry > 0.  capital is in paise.
BBBS_calculate_trade_levels(entry, sl, side) ==
    LET risk == Abs(entry - sl)
        qty_risk == IF risk > 0 THEN (BBBS_MAX_LOSS_RS * TicksPerRupee) \div risk ELSE 0
        max_position_value == BBBS_CAPITAL_RS * BBBS_MAX_ALLOWED_LEVERAGE
        qty_capital == (max_position_value * TicksPerRupee) \div entry
        qty == Min(qty_risk, qty_capital)
        position_value == entry * qty
        leverage == CeilDiv(position_value, BBBS_CAPITAL_RS * TicksPerRupee)
    IN IF risk <= 0 THEN None
       ELSE IF qty_risk <= 0 THEN None
       ELSE IF qty <= 0 THEN None
       ELSE IF leverage < 1 \/ leverage > BBBS_MAX_ALLOWED_LEVERAGE THEN None
       ELSE [kind |-> "levels",
             entry |-> round(entry),
             sl |-> round(sl),
             qty |-> qty,
             leverage |-> leverage,
             capital |-> RoundDiv(position_value, (TicksPerRupee \div 100) * leverage),
             targets |-> BBBS_targets(entry, risk, side)]

\* --- EMACCI.calculate_trade_levels ----------------------------------
EMACCI_CAPITAL_RS == 1000
EMACCI_MAX_LOSS_RS == 100
EMACCI_MAX_ALLOWED_LEVERAGE == 10
EMACCI_MIN_LEVERAGE == 5

\* A leverage search that always ends on the floor.
EMACCI_leverage_Floor(risk, entry, lev) == EMACCI_MIN_LEVERAGE

\* The for / else loop from lev down to MIN_LEVERAGE: the first lev whose
\* loss (risk / entry) * CAPITAL_RS * lev is at most MAX_LOSS_RS, else
\* MIN_LEVERAGE.
RECURSIVE EMACCI_leverage(_, _, _)
EMACCI_leverage(risk, entry, lev) ==
    IF lev < EMACCI_MIN_LEVERAGE THEN EMACCI_MIN_LEVERAGE
    ELSE IF risk * EMACCI_CAPITAL_RS * lev <= EMACCI_MAX_LOSS_RS * entry THEN lev
    ELSE EMACCI_leverage(risk, entry, lev - 1)

\* Targets with the direction of the two sides exchanged.
EMACCI_targets_Flipped(entry, risk, side) ==
    IF side = "BUY"
    THEN <<entry - risk * 2, entry - risk * 3, entry - risk * 4>>
    ELSE <<entry + risk * 2, entry + risk * 3, entry + risk * 4>>

\* t2, t3, t4 of calculate_trade_levels.
EMACCI_targets(entry, risk, side) ==
    IF side = "BUY"
    THEN <<entry + risk * 2, entry + risk * 3, entry + risk * 4>>
    ELSE <<entry - risk * 2, entry - risk * 3, entry - risk * 4>>

\* entry > 0.  The result is the tuple the function returns.
EMACCI_calculate_trade_levels(entry, sl, side) ==
    LET risk == Abs(entry - sl)
    IN [kind |-> "levels",
        entry |-> entry,
        sl |-> sl,
        leverage |-> EMACCI_leverage(risk, entry, EMACCI_MAX_ALLOWED_LEVERAGE),
        capital |-> EMACCI_CAPITAL_RS,
        targets |-> EMACCI_targets(entry, risk, side)]

\* --- EMACluster.calculate_trade_levels ------------------------------
EMACluster_CAPITAL_RS == 1000
EMACluster_MAX_LOSS_RS == 100
EMACluster_MAX_ALLOWED_LEVERAGE == 10
EMACluster_MIN_LEVERAGE == 5

\* The for / else loop from lev down to MIN_LEVERAGE: the first lev whose
\* loss (risk / entry) * CAPITAL_RS * lev is at most MAX_LOSS_RS, else
\* MIN_LEVERAGE.
RECURSIVE EMACluster_leverage(_, _, _)
EMACluster_leverage(risk, entry, lev) ==
    IF lev < EMACluster_MIN_LEVERAGE THEN EMACluster_MIN_LEVERAGE
    ELSE IF risk * EMACluster_CAPITAL_RS * lev <= EMACluster_MAX_LOSS_RS * entry THEN lev
    ELSE EMACluster_leverage(risk, entry, lev - 1)

EMACluster_targets(entry, risk, side) ==
    IF side = "BUY"
    THEN <<entry + risk * 2, entry + risk * 3, entry + risk * 4>>
    ELSE <<entry - risk * 2, entry - risk * 3, entry - risk * 4>>

EMACluster_calculate_trade_levels(entry, sl, side) ==
    LET risk == Abs(entry - sl)
    IN [kind |-> "levels",
        entry |-> entry,
        sl |-> sl,
        leverage |-> EMACluster_leverage(risk, entry, EMACluster_MAX_ALLOWED_LEVERAGE),
        capital |-> EMACluster_CAPITAL_RS,
        targets |-> EMACluster_targets(entry, risk, side)]

\* --- ReversalBuySell.calculate_trade_levels -------------------------
RBS_CAPITAL_RS == 1000
RBS_MAX_LOSS_RS == 100
RBS_MAX_ALLOWED_LEVERAGE == 20
RBS_MIN_LEVERAGE == 5

\* The for / else loop from lev down to MIN_LEVERAGE: the first lev whose
\* loss (risk / entry) * CAPITAL_RS * lev is at most MAX_LOSS_RS, else
\* MIN_LEVERAGE.
RECURSIVE RBS_leverage(_, _, _)
RBS_leverage(risk, entry, lev) ==
    IF lev < RBS_MIN_LEVERAGE THEN RBS_MIN_LEVERAGE
    ELSE IF risk * RBS_CAPITAL_RS * lev <= RBS_MAX_LOSS_RS * entry THEN lev
    ELSE RBS_leverage(risk, entry, lev - 1)

\* MIN_RISK_PERCENT = 0.2 and MAX_RISK_PERCENT = 2.5, in tenths of a percent.
RBS_MIN_RISK_PERMILLE == 2
RBS_MAX_RISK_PERMILLE == 25

RBS_targets(entry, risk, side) ==
    IF side = "BUY"
    THEN <<entry + risk * 2, entry + risk * 3, entry + risk * 4>>
    ELSE <<entry - risk * 2, entry - risk * 3, entry - risk * 4>>

\* entry > 0.  risk_percent is the fraction <<risk * 100, entry>>.
RBS_calculate_trade_levels(entry, sl, side) ==
    LET risk == Abs(entry - sl)
    IN IF risk * 1000 < RBS_MIN_RISK_PERMILLE * entry THEN None
       ELSE IF risk * 1000 > RBS_MAX_RISK_PERMILLE * entry THEN None
       ELSE [kind |-> "levels",
             entry |-> entry,
             sl |-> sl,
             leverage |-> RBS_leverage(risk, entry, RBS_MAX_ALLOWED_LEVERAGE),
             capital |-> RBS_CAPITAL_RS,
             targets |-> RBS_targets(entry, risk, side),
             risk_percent |-> <<risk * 100, entry>>]

\* --- SupertrendMomentum.calculate_trade_levels --------------------------
SM_CAPITAL_RS == 600
SM_MAX_LOSS_RS == 50
SM_MAX_ALLOWED_LEVERAGE == 10
SM_RR_LEVELS == <<2, 3, 4>>

\* c is the row of the signal candle, prices in ticks; capital in paise.
SM_calculate_trade_levels(side, c) ==
    LET entry == IF side = "bullish" THEN c.high ELSE c.low
        sl == IF side = "bullish" THEN c.low ELSE c.high
        risk == Abs(entry - sl)
        qty_risk == IF risk > 0 THEN (SM_MAX_LOSS_RS * TicksPerRupee) \div risk ELSE 0
        max_position_value == SM_CAPITAL_RS * SM_MAX_ALLOWED_LEVERAGE
        qty_capital == (max_position_value * TicksPerRupee) \div entry
        qty == Min(qty_risk, qty_capital)
        position_value == entry * qty
        leverage == CeilDiv(position_value, SM_CAPITAL_RS * TicksPerRupee)
    IN IF risk <= 0 THEN None
       ELSE IF qty_risk <= 0 THEN None
       ELSE IF qty <= 0 THEN None
       ELSE IF leverage < 1 \/ leverage > SM_MAX_ALLOWED_LEVERAGE THEN None
       ELSE [kind |-> "levels",
             entry |-> round(entry),
             sl |-> round(sl),
             qty |-> qty,
             leverage |-> leverage,
             capital |-> RoundDiv(position_value, (TicksPerRupee \div 100) * leverage),
             targets |-> [i \in DOMAIN SM_RR_LEVELS |->
                             round(IF side = "bullish" THEN entry + SM_RR_LEVELS[i] * risk
                                   ELSE entry - SM_RR_LEVELS[i] * risk)]]

\* --- CCISetup.calculate_targets ------------------------------------------
\* The dict "1:1" .. "1:5", as the sequence of its values; prices in ticks
\* of a third of 10^-6.
CCISetup_calculate_targets(entry, stop_loss, signal_type) ==
    LET risk == Abs(entry - stop_loss)
    IN [rr \in 1..5 |->
           round(IF signal_type = "BUY" THEN entry + rr * risk ELSE entry - rr * risk)]

\* ------------------------------------------------------------------------
\* BollingerBandBuySell.py
\* ------------------------------------------------------------------------

\* Rows of the Heikin-Ashi frame joined with the Bollinger frame: the raw
\* low / high, the bands, and the Heikin-Ashi colour and extremes of a bar.
BBBS_Rows ==
    {[HA_Color |-> c, low |-> l, HA_Low |-> l, LowerBB |-> 2990,
      high |-> h, HA_High |-> h, UpperBB |-> 3010] :
        c \in {"RED", "GREEN"}, l \in {2985, 2988, 2995}, h \in {3005, 3014}}

\* What the exchange can answer to fetch_candles: an error (the task dies
\* with the exception), fewer than 50 candles (None), or a frame.
BBBS_Market ==
    {[kind |-> "raise", df |-> << >>], [kind |-> "none", df |-> << >>]}
    \cup {[kind |-> "df", df |-> <<r, Filler>>] : r \in BBBS_Rows}

\* top_gainers are submitted with side BUY, top_losers with side SELL; a
\* pair that moved less than 2 % has no task.
BBBS_Sides == {"BUY", "SELL", "none"}

\* The stage-1 tests of process (entry into the watchlist).
BBBS_BuyEntry(last) == last.HA_Color = "RED" /\ last.low <= last.LowerBB
BBBS_SellEntry(last) == last.HA_Color = "GREEN" /\ last.high >= last.UpperBB

\* The stage-2 tests of process: reached only past the stage-1 return.
BBBS_BuyConfirm(pair, last, watch) ==
    ~BBBS_BuyEntry(last) /\ pair \in DOMAIN watch /\ last.HA_Color = "GREEN"
BBBS_SellConfirm(pair, last, watch) ==
    ~BBBS_SellEntry(last) /\ pair \in DOMAIN watch /\ last.HA_Color = "RED"

\* dict assignment that keeps the value of a key already present.
Put_KeepFirst(d, k, v) == [x \in DOMAIN d \cup {k} |-> IF x \in DOMAIN d THEN d[x] ELSE v]

\* dict assignment and dict.pop.
Put(d, k, v) == [x \in DOMAIN d \cup {k} |-> IF x = k THEN v ELSE d[x]]
Pop(d, k) == [x \in DOMAIN d \ {k} |-> d[x]]

\* process(pair, side), run to its end by a worker thread; m is what the
\* exchange answers.  It writes buy_watch / sell_watch and alerts itself.
BBBS_process(p, m) ==
    /\ script = "BollingerBandBuySell"
    /\ pc = "pool"
    /\ future[p] = "running"
    /\ market' = [market EXCEPT ![p] = m]
    /\ future' = [future EXCEPT ![p] = "done"]
    /\ IF m.kind # "df"
       THEN UNCHANGED memory
       ELSE LET last == iloc(m.df, 2)
                side == task[p]
                addb == side = "BUY" /\ BBBS_BuyEntry(last)
                adds == side = "SELL" /\ BBBS_SellEntry(last)
                buy == side = "BUY" /\ BBBS_BuyConfirm(p, last, buy_watchlist)
                sell == side = "SELL" /\ BBBS_SellConfirm(p, last, sell_watchlist)
                tb == IF buy
                      THEN BBBS_calculate_trade_levels(last.HA_High, buy_watchlist[p].bb_low, "BUY")
                      ELSE None
                ts == IF sell
                      THEN BBBS_calculate_trade_levels(last.HA_Low, sell_watchlist[p].bb_high, "SELL")
                      ELSE None
            IN /\ buy_watchlist' =
                      IF addb THEN Put(buy_watchlist, p, [bb_low |-> last.HA_Low])
                      ELSE IF buy THEN Pop(buy_watchlist, p)
                      ELSE buy_watchlist
               /\ sell_watchlist' =
                      IF adds THEN Put(sell_watchlist, p, [bb_high |-> last.HA_High])
                      ELSE IF sell THEN Pop(sell_watchlist, p)
                      ELSE sell_watchlist
               /\ buy_signals' =
                      IF buy /\ tb # None
                      THEN Append(buy_signals, [pair |-> p, trade |-> tb])
                      ELSE buy_signals
               /\ sell_signals' =
                      IF sell /\ ts # None
                      THEN Append(sell_signals, [pair |-> p, trade |-> ts])
                      ELSE sell_signals
               /\ UNCHANGED <<st_buy_watchlist, st_sell_watchlist,
                              new_buy_candidates, new_sell_candidates>>
    /\ UNCHANGED <<script, pc, task, result, files, sent, prev_sent, repeat, rbs, pure>>

\* ------------------------------------------------------------------------
\* The cycle: main() of the set-based watchlist scanners
\* ------------------------------------------------------------------------
SetScripts == {"BB_RSI", "RSI_MACD", "BB_SuperTrend"}

\* The watchlist scanners of specification Spec.
Scripts == SetScripts \cup {"BollingerBandBuySell"}

\* An empty watchlist: a set in the set-based scripts, a dict or a list in
\* the others.
Empty(s) == IF s \in SetScripts THEN {} ELSE << >>

MarketOf(s) ==
    CASE s = "BB_RSI" -> BB_RSI_Market
      [] s = "RSI_MACD" -> RSI_MACD_Market
      [] s = "BB_SuperTrend" -> BB_ST_Market
      [] s = "BollingerBandBuySell" -> BBBS_Market

NoResult == [kind |-> "pending"]

\* list.sort(key=volume, reverse=True): stable, descending by volume.
RECURSIVE SortByVolume(_)
SortByVolume(s) ==
    IF Len(s) <= 1 THEN s
    ELSE LET top == CHOOSE i \in DOMAIN s :
                        /\ \A j \in DOMAIN s : s[j].volume <= s[i].volume
                        /\ \A j \in 1..(i-1) : s[j].volume < s[i].volume
         IN <<s[top]>> \o SortByVolume(SubSeq(s, 1, top-1) \o SubSeq(s, top+1, Len(s)))

\* load_watchlist(filename): the persisted set (the empty set when the file
\* does not exist yet).
load_watchlist(file) == file

\* Scripts whose re-run on unchanged bars is recorded (repeat, prev_sent).
RerunScripts == {"BB_RSI", "RSI_MACD"}

Unset == [kind |-> "unset", df |-> << >>]

\* The state before the first run of one of the scripts S.
InitFor(S) ==
    /\ script \in S
    /\ pc = "idle"
    /\ market = [p \in Pairs |-> Unset]
    /\ future = [p \in Pairs |-> "none"]
    /\ result = [p \in Pairs |-> NoResult]
    /\ buy_watchlist = Empty(script) /\ sell_watchlist = Empty(script)
    /\ st_buy_watchlist = {} /\ st_sell_watchlist = {}
    /\ new_buy_candidates = {} /\ new_sell_candidates = {}
    /\ buy_signals = << >> /\ sell_signals = << >>
    /\ buy_file = Empty(script) /\ sell_file = Empty(script)
    /\ st_buy_file = {} /\ st_sell_file = {}
    /\ sent = NoMessage /\ prev_sent = NoMessage
    /\ repeat = FALSE
    /\ task = [p \in Pairs |-> "none"]
    /\ wpc = [p \in Pairs |-> "none"]
    /\ tmp = [p \in Pairs |-> << >>]
    /\ rebound = [buy |-> FALSE, sell |-> FALSE]
    /\ own = [buy |-> << >>, sell |-> << >>]
    /\ call = [fn |-> "none"]
    /\ ret = [kind |-> "none"]

Init == InitFor(Scripts)

\* main() up to the submission of the tasks: load the watchlists and submit
\* one task per pair.  again = TRUE starts a run before any new bar has
\* closed: every fetch of the run answers what it answered in the last run.
StartCycle(again) ==
    /\ script \in SetScripts
    /\ pc = "idle"
    /\ again => \A p \in Pairs : market[p] # Unset
    /\ repeat' = again
    /\ market' = IF again THEN market ELSE [p \in Pairs |-> Unset]
    /\ prev_sent' = IF again THEN sent ELSE NoMessage
    /\ sent' = NoMessage
    /\ buy_watchlist' = load_watchlist(buy_file)
    /\ sell_watchlist' = load_watchlist(sell_file)
    /\ st_buy_watchlist' =
           IF script = "BB_SuperTrend" THEN load_watchlist(st_buy_file) ELSE {}
    /\ st_sell_watchlist' =
           IF script = "BB_SuperTrend" THEN load_watchlist(st_sell_file) ELSE {}
    /\ new_buy_candidates' = {} /\ new_sell_candidates' = {}
    /\ buy_signals' = << >> /\ sell_signals' = << >>
    /\ task' = [p \in Pairs |-> "fetch"]
    /\ future' = [p \in Pairs |-> "running"]
    /\ result' = [p \in Pairs |-> NoResult]
    /\ pc' = "pool"
    /\ UNCHANGED <<script, files, rbs, pure>>

\* A worker thread runs the task of pair p to its end; m is what the
\* exchange answers.
Fetch(p, m) ==
    /\ script \in SetScripts
    /\ pc = "pool"
    /\ future[p] = "running"
    /\ repeat => m = market[p]
    /\ market' = [market EXCEPT ![p] = m]
    /\ future' = [future EXCEPT ![p] = "done"]
    /\ result' = [result EXCEPT ![p] =
                     CASE script = "BB_RSI" -> BB_RSI_fetch_coin_data(m)
                       [] script = "RSI_MACD" -> RSI_MACD_fetch_coin_data(m)
                       [] script = "BB_SuperTrend" -> BB_ST_process_coin(m)]
    /\ UNCHANGED <<script, pc, task, memory, files, sent, prev_sent, repeat, rbs, pure>>

\* main() after the pool: merge the candidates, save the files, send the
\* message; the process then exits and its memory is gone.  The answers of
\* the exchange stay on record only where a re-run can follow.
Finish ==
    /\ script \in SetScripts
    /\ pc = "pool"
    /\ \A p \in Pairs : future[p] = "collected"
    /\ buy_file' = buy_watchlist \cup new_buy_candidates
    /\ sell_file' = sell_watchlist \cup new_sell_candidates
    /\ st_buy_file' = IF script = "BB_SuperTrend" THEN st_buy_watchlist ELSE st_buy_file
    /\ st_sell_file' = IF script = "BB_SuperTrend" THEN st_sell_watchlist ELSE st_sell_file
    /\ sent' = IF script = "RSI_MACD"
               THEN [buy |-> SortByVolume(buy_signals), sell |-> SortByVolume(sell_signals)]
               ELSE [buy |-> buy_signals, sell |-> sell_signals]
    /\ market' = IF script \in RerunScripts /\ ~repeat THEN market
                 ELSE [p \in Pairs |-> Unset]
    /\ buy_watchlist' = {} /\ sell_watchlist' = {}
    /\ st_buy_watchlist' = {} /\ st_sell_watchlist' = {}
    /\ new_buy_candidates' = {} /\ new_sell_candidates' = {}
    /\ buy_signals' = << >> /\ sell_signals' = << >>
    /\ task' = [p \in Pairs |-> "none"]
    /\ future' = [p \in Pairs |-> "none"]
    /\ result' = [p \in Pairs |-> NoResult]
    /\ pc' = "idle"
    /\ UNCHANGED <<script, prev_sent, repeat, rbs, pure>>

\* BollingerBandBuySell.main() up to the submission of the tasks: load the
\* two dicts, rank the pairs by their 1D change and submit process(p, side)
\* for the top gainers and the top losers.
BBBS_StartCycle(sides) ==
    /\ script = "BollingerBandBuySell"
    /\ pc = "idle"
    /\ buy_watchlist' = load_watchlist(buy_file)
    /\ sell_watchlist' = load_watchlist(sell_file)
    /\ buy_signals' = << >> /\ sell_signals' = << >>
    /\ sent' = NoMessage
    /\ task' = sides
    /\ future' = [p \in Pairs |-> IF sides[p] = "none" THEN "none" ELSE "running"]
    /\ market' = [p \in Pairs |-> Unset]
    /\ pc' = "pool"
    /\ UNCHANGED <<script, result, files, prev_sent, repeat, rbs, pure,
                   st_buy_watchlist, st_sell_watchlist,
                   new_buy_candidates, new_sell_candidates>>

\* BollingerBandBuySell.main() after the pool has shut down: send the
\* alerts and dump the two dicts.
BBBS_Finish ==
    /\ script = "BollingerBandBuySell"
    /\ pc = "pool"
    /\ \A p \in Pairs : future[p] # "running"
    /\ sent' = [buy |-> buy_signals, sell |-> sell_signals]
    /\ buy_file' = buy_watchlist
    /\ sell_file' = sell_watchlist
    /\ buy_watchlist' = << >> /\ sell_watchlist' = << >>
    /\ buy_signals' = << >> /\ sell_signals' = << >>
    /\ task' = [p \in Pairs |-> "none"]
    /\ future' = [p \in Pairs |-> "none"]
    /\ market' = [p \in Pairs |-> Unset]
    /\ pc' = "idle"
    /\ UNCHANGED <<script, result, st_buy_file, st_sell_file, prev_sent, repeat, rbs, pure,
                   st_buy_watchlist, st_sell_watchlist,
                   new_buy_candidates, new_sell_candidates>>

Next ==
    \/ \E again \in BOOLEAN : StartCycle(again)
    \/ \E sides \in [Pairs -> BBBS_Sides] : BBBS_StartCycle(sides)
    \/ \E p \in Pairs : \E m \in BBBS_Market : BBBS_process(p, m)
    \/ BBBS_Finish
    \/ \E p \in Pairs : \E m \in MarketOf(script) : Fetch(p, m)
    \/ \E p \in Pairs : BB_RSI_Collect(p)
    \/ \E p \in Pairs : RSI_MACD_Collect(p)
    \/ \E p \in Pairs : BB_ST_Collect(p)
    \/ Finish

Spec == Init /\ [][Next]_vars

\* ------------------------------------------------------------------------
\* ReversalBuySell.py
\* ------------------------------------------------------------------------

\* Rows of the prepared frame: Supertrend direction and value, Heikin-Ashi
\* close and extremes, Bollinger bands of one bar.  ST_value is the lower
\* band in an up trend and the upper band in a down trend.
RBS_Rows ==
    {[supertrend |-> TRUE, ST_value |-> v, HA_close |-> 1000, HA_low |-> 995,
      HA_high |-> 1005, BB_lower |-> b[1], BB_upper |-> b[2]] :
        v \in {985, 1004}, b \in {<<900, 1100>>, <<900, 1000>>, <<1000, 1100>>}}
    \cup
    {[supertrend |-> FALSE, ST_value |-> v, HA_close |-> 1000, HA_low |-> 995,
      HA_high |-> 1005, BB_lower |-> b[1], BB_upper |-> b[2]] :
        v \in {1005, 996}, b \in {<<900, 1100>>, <<900, 1000>>, <<1000, 1100>>}}

\* What the exchange can answer: an error or too few candles (None either
\* way), or candles whose last one is the live bar.
RBS_Market ==
    {[kind |-> "none", df |-> << >>]}
    \cup {[kind |-> "df", df |-> <<r, Filler>>] : r \in RBS_Rows}

\* fetch_and_prepare(pair): drops the live bar (df.iloc[:-1]).
RBS_fetch_and_prepare(m) ==
    IF m.kind = "df" THEN [kind |-> "df", df |-> SubSeq(m.df, 1, Len(m.df) - 1)]
    ELSE [kind |-> "none", df |-> << >>]

\* last_closed = df.iloc[-1] of the prepared frame.
RBS_last_closed(m) == iloc(RBS_fetch_and_prepare(m).df, 1)

\* find_entry(pair, watchlist), as the truth value the callers test.
find_entry(pair, watchlist) == \E i \in DOMAIN watchlist : watchlist[i].pair = pair

\* [x for x in watchlist if x["pair"] != pair]
Without(watchlist, pair) == SelectSeq(watchlist, LAMBDA x : x.pair # pair)

\* process_pair, line 243-250: fetch; a failed fetch returns None.
RBS_fetch(p, m) ==
    /\ script = "ReversalBuySell" /\ pc = "pool"
    /\ future[p] = "running" /\ wpc[p] = "fetch"
    /\ market' = [market EXCEPT ![p] = m]
    /\ IF RBS_fetch_and_prepare(m).kind = "df"
       THEN /\ wpc' = [wpc EXCEPT ![p] = "rm_sell"]
            /\ result' = [result EXCEPT ![p] = [kind |-> "results", list |-> << >>]]
            /\ UNCHANGED future
       ELSE /\ wpc' = [wpc EXCEPT ![p] = "end"]
            /\ result' = [result EXCEPT ![p] = None]
            /\ future' = [future EXCEPT ![p] = "done"]
    /\ UNCHANGED <<script, pc, task, memory, files, sent, prev_sent, repeat,
                   tmp, rebound, own, pure>>

\* line 253-254, the test and the list comprehension: the worker reads the
\* shared sell_watch and builds the filtered list.
RBS_remove_sell_read(p) ==
    /\ script = "ReversalBuySell" /\ wpc[p] = "rm_sell"
    /\ IF find_entry(p, sell_watchlist) /\ ~RBS_last_closed(market[p]).supertrend
       THEN /\ tmp' = [tmp EXCEPT ![p] = Without(sell_watchlist, p)]
            /\ wpc' = [wpc EXCEPT ![p] = "rm_sell_w"]
       ELSE /\ wpc' = [wpc EXCEPT ![p] = "rm_buy"]
            /\ UNCHANGED tmp
    /\ UNCHANGED <<script, pc, task, market, future, result, memory, files,
                   sent, prev_sent, repeat, rebound, own, pure>>

\* line 254, the slice assignment sell_watch[:] = ...
RBS_remove_sell_write(p) ==
    /\ script = "ReversalBuySell" /\ wpc[p] = "rm_sell_w"
    /\ sell_watchlist' = tmp[p]
    /\ tmp' = [tmp EXCEPT ![p] = << >>]
    /\ wpc' = [wpc EXCEPT ![p] = "rm_buy"]
    /\ UNCHANGED <<script, pc, task, market, future, result, files,
                   sent, prev_sent, repeat, rebound, own, pure,
                   buy_watchlist, st_buy_watchlist, st_sell_watchlist,
                   new_buy_candidates, new_sell_candidates, buy_signals, sell_signals>>

\* line 256-257, the test and the list comprehension.
RBS_remove_buy_read(p) ==
    /\ script = "ReversalBuySell" /\ wpc[p] = "rm_buy"
    /\ IF find_entry(p, buy_watchlist) /\ RBS_last_closed(market[p]).supertrend
       THEN /\ tmp' = [tmp EXCEPT ![p] = Without(buy_watchlist, p)]
            /\ wpc' = [wpc EXCEPT ![p] = "rm_buy_w"]
       ELSE /\ wpc' = [wpc EXCEPT ![p] = "add"]
            /\ UNCHANGED tmp
    /\ UNCHANGED <<script, pc, task, market, future, result, memory, files,
                   sent, prev_sent, repeat, rebound, own, pure>>

\* line 257, the slice assignment buy_watch[:] = ...
RBS_remove_buy_write(p) ==
    /\ script = "ReversalBuySell" /\ wpc[p] = "rm_buy_w"
    /\ buy_watchlist' = tmp[p]
    /\ tmp' = [tmp EXCEPT ![p] = << >>]
    /\ wpc' = [wpc EXCEPT ![p] = "add"]
    /\ UNCHANGED <<script, pc, task, market, future, result, files,
                   sent, prev_sent, repeat, rebound, own, pure,
                   sell_watchlist, st_buy_watchlist, st_sell_watchlist,
                   new_buy_candidates, new_sell_candidates, buy_signals, sell_signals>>

\* line 260-266: a pair in neither list is proposed for one of them.
RBS_add(p) ==
    /\ script = "ReversalBuySell" /\ wpc[p] = "add"
    /\ LET last_closed == RBS_last_closed(market[p])
           st_state == last_closed.supertrend
           free == ~find_entry(p, buy_watchlist) /\ ~find_entry(p, sell_watchlist)
           item == IF free /\ last_closed.HA_close >= last_closed.BB_upper /\ st_state
                   THEN <<[action |-> "add_sell", pair |-> p, entry_state |-> TRUE]>>
                   ELSE IF free /\ last_closed.HA_close <= last_closed.BB_lower /\ ~st_state
                   THEN <<[action |-> "add_buy", pair |-> p, entry_state |-> FALSE]>>
                   ELSE << >>
       IN result' = [result EXCEPT ![p].list = @ \o item]
    /\ wpc' = [wpc EXCEPT ![p] = "flip_sell"]
    /\ UNCHANGED <<script, pc, task, market, future, memory, files,
                   sent, prev_sent, repeat, tmp, rebound, own, pure>>

\* line 269-272: the SELL flip check.
RBS_flip_sell(p) ==
    /\ script = "ReversalBuySell" /\ wpc[p] = "flip_sell"
    /\ LET last_closed == RBS_last_closed(market[p])
           item == IF find_entry(p, sell_watchlist) /\ ~last_closed.supertrend
                   THEN <<[action |-> "sell_signal", pair |-> p,
                           entry |-> last_closed.HA_low, sl |-> last_closed.ST_value]>>
                   ELSE << >>
       IN result' = [result EXCEPT ![p].list = @ \o item]
    /\ wpc' = [wpc EXCEPT ![p] = "flip_buy"]
    /\ UNCHANGED <<script, pc, task, market, future, memory, files,
                   sent, prev_sent, repeat, tmp, rebound, own, pure>>

\* line 274-279: the BUY flip check, and the return of the results.
RBS_flip_buy(p) ==
    /\ script = "ReversalBuySell" /\ wpc[p] = "flip_buy"
    /\ LET last_closed == RBS_last_closed(market[p])
           item == IF find_entry(p, buy_watchlist) /\ last_closed.supertrend
                   THEN <<[action |-> "buy_signal", pair |-> p,
                           entry |-> last_closed.HA_high, sl |-> last_closed.ST_value]>>
                   ELSE << >>
       IN result' = [result EXCEPT ![p].list = @ \o item]
    /\ wpc' = [wpc EXCEPT ![p] = "end"]
    /\ future' = [future EXCEPT ![p] = "done"]
    /\ UNCHANGED <<script, pc, task, market, memory, files,
                   sent, prev_sent, repeat, tmp, rebound, own, pure>>

\* The lists main()'s names buy_watch / sell_watch refer to: the lists the
\* workers share until main() rebinds its name to a new list.
RBS_main_buy(st) == IF st.rebound.buy THEN st.own.buy ELSE st.buy
RBS_main_sell(st) == IF st.rebound.sell THEN st.own.sell ELSE st.sell

\* line 302-366, the handling of one result r by main() in state st.
RBS_handle_one(r, st) ==
    CASE r.action = "add_buy" ->
           LET e == [pair |-> r.pair, entry_state |-> r.entry_state]
           IN IF st.rebound.buy THEN [st EXCEPT !.own.buy = Append(@, e)]
              ELSE [st EXCEPT !.buy = Append(@, e)]
      [] r.action = "add_sell" ->
           LET e == [pair |-> r.pair, entry_state |-> r.entry_state]
           IN IF st.rebound.sell THEN [st EXCEPT !.own.sell = Append(@, e)]
              ELSE [st EXCEPT !.sell = Append(@, e)]
      [] r.action = "buy_signal" ->
           LET levels == RBS_calculate_trade_levels(r.entry, r.sl, "BUY")
           IN [st EXCEPT
                 !.buy_alerts = IF levels # None
                                THEN Append(@, [pair |-> r.pair, trade |-> levels])
                                ELSE @,
                 !.own.buy = Without(RBS_main_buy(st), r.pair),
                 !.rebound.buy = TRUE]
      [] r.action = "sell_signal" ->
           LET levels == RBS_calculate_trade_levels(r.entry, r.sl, "SELL")
           IN [st EXCEPT
                 !.sell_alerts = IF levels # None
                                 THEN Append(@, [pair |-> r.pair, trade |-> levels])
                                 ELSE @,
                 !.own.sell = Without(RBS_main_sell(st), r.pair),
                 !.rebound.sell = TRUE]

\* for r in res: ...
RECURSIVE RBS_handle(_, _)
RBS_handle(res, st) ==
    IF res = << >> THEN st
    ELSE RBS_handle(Tail(res), RBS_handle_one(Head(res), st))

\* Body of the as_completed loop of main() for one finished future.
RBS_Collect(p) ==
    /\ script = "ReversalBuySell" /\ pc = "pool"
    /\ future[p] = "done"
    /\ future' = [future EXCEPT ![p] = "collected"]
    /\ LET res == result[p]
           st == RBS_handle(IF res = None THEN << >> ELSE res.list,
                            [buy |-> buy_watchlist, sell |-> sell_watchlist,
                             rebound |-> rebound, own |-> own,
                             buy_alerts |-> buy_signals, sell_alerts |-> sell_signals])
       IN /\ buy_watchlist' = st.buy
          /\ sell_watchlist' = st.sell
          /\ rebound' = st.rebound
          /\ own' = st.own
          /\ buy_signals' = st.buy_alerts
          /\ sell_signals' = st.sell_alerts
    /\ UNCHANGED <<script, pc, task, market, result, files, sent, prev_sent, repeat,
                   wpc, tmp, pure, st_buy_watchlist, st_sell_watchlist,
                   new_buy_candidates, new_sell_candidates>>

\* main() up to the submission of the tasks: pairs are the top movers; the
\* loaded watchlists keep only the entries of those pairs.
RBS_StartCycle(pairs) ==
    /\ script = "ReversalBuySell" /\ pc = "idle"
    /\ buy_watchlist' = SelectSeq(load_watchlist(buy_file), LAMBDA x : x.pair \in pairs)
    /\ sell_watchlist' = SelectSeq(load_watchlist(sell_file), LAMBDA x : x.pair \in pairs)
    /\ rebound' = [buy |-> FALSE, sell |-> FALSE]
    /\ own' = [buy |-> << >>, sell |-> << >>]
    /\ buy_signals' = << >> /\ sell_signals' = << >>
    /\ sent' = NoMessage
    /\ task' = [p \in Pairs |-> IF p \in pairs THEN "process_pair" ELSE "none"]
    /\ future' = [p \in Pairs |-> IF p \in pairs THEN "running" ELSE "none"]
    /\ wpc' = [p \in Pairs |-> IF p \in pairs THEN "fetch" ELSE "none"]
    /\ tmp' = [p \in Pairs |-> << >>]
    /\ market' = [p \in Pairs |-> Unset]
    /\ result' = [p \in Pairs |-> NoResult]
    /\ pc' = "pool"
    /\ UNCHANGED <<script, files, prev_sent, repeat, pure,
                   st_buy_watchlist, st_sell_watchlist,
                   new_buy_candidates, new_sell_candidates>>

\* main() after the pool: send the alerts, save what main()'s names
\* buy_watch and sell_watch refer to.
RBS_Finish ==
    /\ script = "ReversalBuySell" /\ pc = "pool"
    /\ \A p \in Pairs : future[p] \in {"none", "collected"}
    /\ sent' = [buy |-> buy_signals, sell |-> sell_signals]
    /\ buy_file' = IF rebound.buy THEN own.buy ELSE buy_watchlist
    /\ sell_file' = IF rebound.sell THEN own.sell ELSE sell_watchlist
    /\ buy_watchlist' = << >> /\ sell_watchlist' = << >>
    /\ rebound' = [buy |-> FALSE, sell |-> FALSE]
    /\ own' = [buy |-> << >>, sell |-> << >>]
    /\ buy_signals' = << >> /\ sell_signals' = << >>
    /\ task' = [p \in Pairs |-> "none"]
    /\ future' = [p \in Pairs |-> "none"]
    /\ wpc' = [p \in Pairs |-> "none"]
    /\ market' = [p \in Pairs |-> Unset]
    /\ result' = [p \in Pairs |-> NoResult]
    /\ pc' = "idle"
    /\ UNCHANGED <<script, st_buy_file, st_sell_file, prev_sent, repeat, tmp, pure,
                   st_buy_watchlist, st_sell_watchlist,
                   new_buy_candidates, new_sell_candidates>>

\* ------------------------------------------------------------------------
\* SupertrendMomentum.py
\* ------------------------------------------------------------------------
SM_ST_LENGTH == 10

\* Rows of the frame fetch_candles returns: Heikin-Ashi candle, Supertrend
\* value and direction of one bar.
SM_Rows ==
    {[open |-> oc[1], close |-> oc[2], high |-> 3014, low |-> 2985,
      ST_Trend |-> t, Supertrend |-> v] :
        oc \in {<<2990, 3010>>, <<3010, 2990>>}, t \in BOOLEAN, v \in {2990, 3005}}

\* A frame long enough for check_signal, with r as its last closed bar.
SM_Frame(r) == [i \in 1..(SM_ST_LENGTH + 3) |-> IF i = SM_ST_LENGTH + 2 THEN r ELSE Filler]

\* What the exchange can answer to fetch_candles: an error (the call
\* raises: no handler in fetch_candles or check_signal), no data (None), a
\* frame too short for check_signal, or a frame.
SM_Market ==
    {[kind |-> "raise", df |-> << >>], [kind |-> "none", df |-> << >>]}
    \cup {[kind |-> "df", df |-> <<r, Filler>>] :
             r \in {[open |-> 2990, close |-> 3010, high |-> 3014, low |-> 2985,
                     ST_Trend |-> TRUE, Supertrend |-> 2990]}}
    \cup {[kind |-> "df", df |-> SM_Frame(r)] : r \in SM_Rows}

\* top_gainers are checked as bullish, top_losers as bearish.
SM_Sides == {"bullish", "bearish", "none"}

\* check_signal(pair, side): what the task returns, or that it raises.
SM_check_signal(pair, side, m) ==
    IF m.kind = "raise" THEN [kind |-> "raise"]
    ELSE IF m.kind = "none" \/ Len(m.df) < SM_ST_LENGTH + 3 THEN None
    ELSE LET c == iloc(m.df, 2)
             bull == /\ side = "bullish" /\ ~(c.close <= c.open)
                     /\ c.ST_Trend /\ c.low <= c.Supertrend /\ c.close > c.Supertrend
             bear == /\ side = "bearish" /\ ~(c.close >= c.open)
                     /\ ~c.ST_Trend /\ c.high >= c.Supertrend /\ c.close < c.Supertrend
         IN IF bull /\ SM_calculate_trade_levels("bullish", c) # None
            THEN [kind |-> "signal", side |-> "BUY", pair |-> pair,
                  trade |-> SM_calculate_trade_levels("bullish", c)]
            ELSE IF bear /\ SM_calculate_trade_levels("bearish", c) # None
            THEN [kind |-> "signal", side |-> "SELL", pair |-> pair,
                  trade |-> SM_calculate_trade_levels("bearish", c)]
            ELSE None

\* main() up to the submission of the tasks.  A run can follow a run that
\* crashed: each run is a new process.
SM_StartCycle(sides) ==
    /\ script = "SupertrendMomentum" /\ pc \in {"idle", "crashed"}
    /\ sent' = NoMessage
    /\ task' = sides
    /\ future' = [p \in Pairs |-> IF sides[p] = "none" THEN "none" ELSE "running"]
    /\ market' = [p \in Pairs |-> Unset]
    /\ result' = [p \in Pairs |-> NoResult]
    /\ pc' = "pool"
    /\ UNCHANGED <<script, memory, files, prev_sent, repeat, rbs, pure>>

\* A worker thread runs check_signal(p, side) to its end.
SM_task(p, m) ==
    /\ script = "SupertrendMomentum" /\ pc = "pool"
    /\ future[p] = "running"
    /\ market' = [market EXCEPT ![p] = m]
    /\ result' = [result EXCEPT ![p] = SM_check_signal(p, task[p], m)]
    /\ future' = [future EXCEPT ![p] = "done"]
    /\ UNCHANGED <<script, pc, task, memory, files, sent, prev_sent, repeat, rbs, pure>>

\* Body of the as_completed loop of main() for one finished future:
\* f.result() re-raises the exception of the task, which main() does not
\* catch; a signal is sent at once.
SM_Collect(p) ==
    /\ script = "SupertrendMomentum" /\ pc = "pool"
    /\ future[p] = "done"
    /\ future' = [future EXCEPT ![p] = "collected"]
    /\ IF result[p].kind = "raise"
       THEN pc' = "crashed" /\ UNCHANGED sent
       ELSE /\ pc' = pc
            /\ sent' = IF result[p].kind # "signal" THEN sent
                       ELSE IF result[p].side = "BUY"
                       THEN [sent EXCEPT !.buy = Append(@, [pair |-> p, trade |-> result[p].trade])]
                       ELSE [sent EXCEPT !.sell = Append(@, [pair |-> p, trade |-> result[p].trade])]
    /\ UNCHANGED <<script, task, market, result, memory, files, prev_sent, repeat, rbs, pure>>

\* main() returns once every future has been handled.
SM_Finish ==
    /\ script = "SupertrendMomentum" /\ pc = "pool"
    /\ \A p \in Pairs : future[p] \in {"none", "collected"}
    /\ task' = [p \in Pairs |-> "none"]
    /\ future' = [p \in Pairs |-> "none"]
    /\ market' = [p \in Pairs |-> Unset]
    /\ result' = [p \in Pairs |-> NoResult]
    /\ pc' = "idle"
    /\ UNCHANGED <<script, memory, files, sent, prev_sent, repeat, rbs, pure>>

\* ------------------------------------------------------------------------
\* Specification SpecScan: ReversalBuySell and SupertrendMomentum
\* ------------------------------------------------------------------------
ScanScripts == {"ReversalBuySell", "SupertrendMomentum"}

InitScan == InitFor(ScanScripts)

NextScan ==
    \/ \E pairs \in SUBSET Pairs : RBS_StartCycle(pairs)
    \/ \E p \in Pairs : \E m \in RBS_Market : RBS_fetch(p, m)
    \/ \E p \in Pairs : RBS_remove_sell_read(p)
    \/ \E p \in Pairs : RBS_remove_sell_write(p)
    \/ \E p \in Pairs : RBS_remove_buy_read(p)
    \/ \E p \in Pairs : RBS_remove_buy_write(p)
    \/ \E p \in Pairs : RBS_add(p)
    \/ \E p \in Pairs : RBS_flip_sell(p)
    \/ \E p \in Pairs : RBS_flip_buy(p)
    \/ \E p \in Pairs : RBS_Collect(p)
    \/ RBS_Finish
    \/ \E sides \in [Pairs -> SM_Sides] : SM_StartCycle(sides)
    \/ \E p \in Pairs : \E m \in SM_Market : SM_task(p, m)
    \/ \E p \in Pairs : SM_Collect(p)
    \/ SM_Finish

SpecScan == InitScan /\ [][NextScan]_vars

\* ------------------------------------------------------------------------
\* Specification SpecRisk: the risk-sizing functions on bounded inputs
\* ------------------------------------------------------------------------
\* Entries MaxEntry - EntrySpan .. MaxEntry ticks, stops within MaxRisk ticks
\* of the entry: risk from 0 to 2.7 % of the entry, past every leverage
\* step and both risk filters.
MaxEntry == 1000
EntrySpan == 5
MaxRisk == 27

Entries == (MaxEntry - EntrySpan)..MaxEntry
Stops(entry) == (entry - MaxRisk)..(entry + MaxRisk)
Sides == {"BUY", "SELL"}

cycle == << script, pc, task, market, future, result, memory, files,
            sent, prev_sent, repeat, rbs >>

\* The calls under check.
Calls(fn) ==
    {[fn |-> fn, entry |-> entry, sl |-> sl, side |-> side] :
        entry \in Entries, sl \in (MaxEntry - EntrySpan - MaxRisk)..(MaxEntry + MaxRisk),
        side \in Sides}

RiskFunctions ==
    {"EMACCI.calculate_trade_levels", "EMACluster.calculate_trade_levels",
     "ReversalBuySell.calculate_trade_levels",
     "BollingerBandBuySell.calculate_trade_levels", "CCISetup.calculate_targets"}

\* Calls of the quantity-based sizing functions over their whole range:
\* entries from one rupee to just past capital * maxlev rupees, risks from
\* 0 to just past maxloss rupees (prices in ticks).
SizingEntries(capital, maxlev) ==
    {e * TicksPerRupee + d : e \in {1, 100, capital * maxlev - 1, capital * maxlev},
                             d \in {0, 1}}
SizingRisks(maxloss) ==
    {0, 1, TicksPerRupee, (maxloss \div 2) * TicksPerRupee + 1,
     maxloss * TicksPerRupee - 1, maxloss * TicksPerRupee, maxloss * TicksPerRupee + 1}
SizingCalls(fn, capital, maxloss, maxlev) ==
    UNION {{[fn |-> fn, entry |-> entry, sl |-> entry + d * r, side |-> side] :
               r \in SizingRisks(maxloss), d \in {-1, 1}, side \in Sides} :
           entry \in SizingEntries(capital, maxlev)}

\* SupertrendMomentum.calculate_trade_levels(side, c): the entry is the high
\* of the signal candle c for "bullish" and its low for "bearish".
SM_Calls ==
    {[fn |-> "SupertrendMomentum.calculate_trade_levels", entry |-> c.entry,
      sl |-> c.sl, side |-> c.side] :
        c \in {x \in SizingCalls("", SM_CAPITAL_RS, SM_MAX_LOSS_RS, SM_MAX_ALLOWED_LEVERAGE)
                       \cup Calls("") :
                  /\ x.sl > 0
                  /\ IF x.side = "BUY" THEN x.sl <= x.entry ELSE x.sl >= x.entry}}

BBBS_SizingCalls ==
    {c \in SizingCalls("BollingerBandBuySell.calculate_trade_levels", BBBS_CAPITAL_RS,
                       BBBS_MAX_LOSS_RS, BBBS_MAX_ALLOWED_LEVERAGE) : c.sl > 0}

\* --- CCISetup.fetch_and_check: the first-cross rule -------------------------
CCI_UPPER == 200
CCI_LOWER == -200
PREV_CANDLES == 10

\* CCI values are in thousandths; settings in the same unit.
CCI_Unit == 1000

\* round(x, 2) of a float, in thousandths (no input is a tie).
CCI_round2(x) == ((x + 5) \div 10) * 10

\* calculate_cci computes the CCI of every bar (the Series cci) and returns
\* the rounded value of the last row alone.
calculate_cci(cci) == CCI_round2(cci[Len(cci)])

\* s.iloc[a:b] for negative a, b (Python slice, 1-based result).
iloc_slice(s, a, b) ==
    LET from == IF Len(s) + a < 0 THEN 0 ELSE Len(s) + a
        to == Len(s) + b
    IN IF to <= from THEN << >> ELSE SubSeq(s, from + 1, to)

\* fetch_and_check from the computation of the cci column on; cci is what
\* the Series inside calculate_cci holds for the bars of the frame.
CCISetup_fetch_and_check(cci) ==
    LET column == [i \in 1..Len(cci) |-> calculate_cci(cci)]
        last_cci == iloc(column, 2)
        prev_cci_window == iloc_slice(column, -(PREV_CANDLES + 2), -2)
        window == {prev_cci_window[k] : k \in 1..Len(prev_cci_window)}
        signal_type ==
            IF last_cci > CCI_UPPER * CCI_Unit
            THEN IF \A x \in window : x <= CCI_UPPER * CCI_Unit THEN "BUY" ELSE "None"
            ELSE IF last_cci < CCI_LOWER * CCI_Unit
                 THEN IF \A x \in window : x >= CCI_LOWER * CCI_Unit THEN "SELL" ELSE "None"
                 ELSE "None"
    IN IF signal_type = "None" THEN None
       ELSE [kind |-> "signal", signal |-> signal_type, cci |-> last_cci]

\* The last PREV_CANDLES + 2 bars of a frame: a window of quiet bars with at
\* most one excursion, the last closed bar and the forming bar.
CCI_Values == {-250000, -200000, 0, 200004, 250000}
CCI_Windows ==
    {[k \in 1..PREV_CANDLES |-> 0]}
    \cup {[k \in 1..PREV_CANDLES |-> IF k = j THEN x ELSE 0] :
            j \in 1..PREV_CANDLES, x \in {-250000, 250000}}
CCI_Frames == {w \o <<last, forming>> : w \in CCI_Windows,
                                        last \in CCI_Values, forming \in CCI_Values}
CCI_Calls == {[fn |-> "CCISetup.fetch_and_check", cci |-> f] : f \in CCI_Frames}

\* A call is about to be made: any function, any arguments within the bounds.
InitRisk ==
    /\ script = "risk sizing"
    /\ pc = "idle"
    /\ market = [p \in Pairs |-> Unset]
    /\ future = [p \in Pairs |-> "none"]
    /\ result = [p \in Pairs |-> NoResult]
    /\ buy_watchlist = << >> /\ sell_watchlist = << >>
    /\ st_buy_watchlist = {} /\ st_sell_watchlist = {}
    /\ new_buy_candidates = {} /\ new_sell_candidates = {}
    /\ buy_signals = << >> /\ sell_signals = << >>
    /\ buy_file = << >> /\ sell_file = << >>
    /\ st_buy_file = {} /\ st_sell_file = {}
    /\ sent = NoMessage /\ prev_sent = NoMessage
    /\ repeat = FALSE
    /\ task = [p \in Pairs |-> "none"]
    /\ wpc = [p \in Pairs |-> "none"]
    /\ tmp = [p \in Pairs |-> << >>]
    /\ rebound = [buy |-> FALSE, sell |-> FALSE]
    /\ own = [buy |-> << >>, sell |-> << >>]
    /\ \/ \E fn \in RiskFunctions : call \in {c \in Calls(fn) : c.sl \in Stops(c.entry)}
       \/ call \in BBBS_SizingCalls \cup SM_Calls
       \/ call \in CCI_Calls
    /\ ret = [kind |-> "none"]

Call_EMACCI ==
    /\ call.fn = "EMACCI.calculate_trade_levels" /\ ret.kind = "none"
    /\ ret' = EMACCI_calculate_trade_levels(call.entry, call.sl, call.side)
    /\ UNCHANGED <<cycle, call>>

Call_EMACluster ==
    /\ call.fn = "EMACluster.calculate_trade_levels" /\ ret.kind = "none"
    /\ ret' = EMACluster_calculate_trade_levels(call.entry, call.sl, call.side)
    /\ UNCHANGED <<cycle, call>>

Call_RBS ==
    /\ call.fn = "ReversalBuySell.calculate_trade_levels" /\ ret.kind = "none"
    /\ ret' = RBS_calculate_trade_levels(call.entry, call.sl, call.side)
    /\ UNCHANGED <<cycle, call>>

Call_BBBS ==
    /\ call.fn = "BollingerBandBuySell.calculate_trade_levels" /\ ret.kind = "none"
    /\ ret' = BBBS_calculate_trade_levels(call.entry, call.sl, call.side)
    /\ UNCHANGED <<cycle, call>>

Call_CCISetup ==
    /\ call.fn = "CCISetup.calculate_targets" /\ ret.kind = "none"
    /\ ret' = [kind |-> "targets",
               targets |-> CCISetup_calculate_targets(call.entry, call.sl, call.side)]
    /\ UNCHANGED <<cycle, call>>

Call_SM ==
    /\ call.fn = "SupertrendMomentum.calculate_trade_levels" /\ ret.kind = "none"
    /\ ret' = IF call.side = "BUY"
              THEN SM_calculate_trade_levels("bullish", [high |-> call.entry, low |-> call.sl])
              ELSE SM_calculate_trade_levels("bearish", [low |-> call.entry, high |-> call.sl])
    /\ UNCHANGED <<cycle, call>>

Call_fetch_and_check ==
    /\ call.fn = "CCISetup.fetch_and_check" /\ ret.kind = "none"
    /\ ret' = CCISetup_fetch_and_check(call.cci)
    /\ UNCHANGED <<cycle, call>>

NextRisk ==
    \/ Call_EMACCI
    \/ Call_EMACluster
    \/ Call_RBS
    \/ Call_BBBS
    \/ Call_CCISetup
    \/ Call_SM
    \/ Call_fetch_and_check

SpecRisk == InitRisk /\ [][NextRisk]_vars

\* risk = |entry - stop| of the call under check.
CallRisk == Abs(call.entry - call.sl)

\* The leverages L of lo..hi whose loss risk / entry * capital * L is at
\* most maxLoss.
Affordable(lo, hi, capital, maxLoss) ==
    {L \in lo..hi : CallRisk * capital * L <= maxLoss * call.entry}

\* The highest affordable leverage, or lo when none is.
HighestOrFloor(lo, hi, capital, maxLoss) ==
    IF Affordable(lo, hi, capital, maxLoss) = {} THEN lo
    ELSE CHOOSE L \in Affordable(lo, hi, capital, maxLoss) :
             \A M \in Affordable(lo, hi, capital, maxLoss) : M <= L

\* The leverage the documented rule gives for the call under check.
ClaimedLeverage ==
    CASE call.fn = "EMACCI.calculate_trade_levels" ->
           HighestOrFloor(EMACCI_MIN_LEVERAGE, EMACCI_MAX_ALLOWED_LEVERAGE,
                          EMACCI_CAPITAL_RS, EMACCI_MAX_LOSS_RS)
      [] call.fn = "EMACluster.calculate_trade_levels" ->
           HighestOrFloor(EMACluster_MIN_LEVERAGE, EMACluster_MAX_ALLOWED_LEVERAGE,
                          EMACluster_CAPITAL_RS, EMACluster_MAX_LOSS_RS)
      [] call.fn = "ReversalBuySell.calculate_trade_levels" ->
           HighestOrFloor(RBS_MIN_LEVERAGE, RBS_MAX_ALLOWED_LEVERAGE,
                          RBS_CAPITAL_RS, RBS_MAX_LOSS_RS)

LeverageCalls ==
    {"EMACCI.calculate_trade_levels", "EMACluster.calculate_trade_levels",
     "ReversalBuySell.calculate_trade_levels"}

\* ReversalBuySell's risk filter lets the call through: the risk is from
\* 0.2 % to 2.5 % of the entry.
RBS_RiskAccepted ==
    /\ CallRisk * 1000 >= RBS_MIN_RISK_PERMILLE * call.entry
    /\ CallRisk * 1000 <= RBS_MAX_RISK_PERMILLE * call.entry

Target(k) ==
    IF call.side = "BUY" THEN call.entry + k * CallRisk ELSE call.entry - k * CallRisk

TargetCalls ==
    {"EMACCI.calculate_trade_levels", "ReversalBuySell.calculate_trade_levels",
     "BollingerBandBuySell.calculate_trade_levels", "CCISetup.calculate_targets"}

Watched(watch, p) ==
    IF script \in SetScripts THEN p \in watch
    ELSE IF script = "BollingerBandBuySell" THEN p \in DOMAIN watch
    ELSE \E i \in DOMAIN watch : watch[i].pair = p

\* Whether a list of alerts holds one for pair p.
Alerted(alerts, p) == \E i \in DOMAIN alerts : alerts[i].pair = p

\* The step that ends a cycle: the files are written and the message sent.
CycleEnds == pc = "pool" /\ pc' = "idle"

\* The frame of pair p's fetch is one the script evaluates.
HasFrame(p) ==
    /\ market[p].kind = "df"
    /\ script = "BB_RSI" => Len(market[p].df) >= 3

\* The entry (stage 1) condition of each side holds for pair p on the bars
\* fetched in this cycle.
EntryBuy(p) ==
    /\ HasFrame(p)
    /\ CASE script = "BB_RSI" -> BB_RSI_BuyEntry(iloc(market[p].df, 2))
         [] script = "RSI_MACD" -> RSI_MACD_fetch_coin_data(market[p]).rsi_buy
         [] script = "BB_SuperTrend" ->
                iloc(market[p].df, 2).close < iloc(market[p].df, 2).lower
         [] script = "BollingerBandBuySell" ->
                task[p] = "BUY" /\ BBBS_BuyEntry(iloc(market[p].df, 2))
EntrySell(p) ==
    /\ HasFrame(p)
    /\ CASE script = "BB_RSI" -> BB_RSI_SellEntry(iloc(market[p].df, 2))
         [] script = "RSI_MACD" -> RSI_MACD_fetch_coin_data(market[p]).rsi_sell
         [] script = "BB_SuperTrend" ->
                iloc(market[p].df, 2).close > iloc(market[p].df, 2).upper
         [] script = "BollingerBandBuySell" ->
                task[p] = "SELL" /\ BBBS_SellEntry(iloc(market[p].df, 2))

\* C1: after any sequence of poll cycles, no pair is in both the persisted
\* BUY watchlist and the persisted SELL watchlist.
C1_NoPairInBothWatchlists ==
    \A p \in Pairs : ~(Watched(buy_file, p) /\ Watched(sell_file, p))

\* C2: a second run on the same unchanged bars emits no alert that the first
\* run emitted.  (The watchlists are sets, written as a list of the set, so
\* a second copy of a watched pair cannot be stored.)
C2_SecondRunSilent ==
    (script \in RerunScripts /\ pc = "idle" /\ repeat) =>
        \A p \in Pairs :
            /\ ~(Alerted(sent.buy, p) /\ Alerted(prev_sent.buy, p))
            /\ ~(Alerted(sent.sell, p) /\ Alerted(prev_sent.sell, p))

\* What a script evaluates on a frame: every condition and price that
\* decides whether a signal fires and what it carries.
Evaluate(s, df) ==
    CASE s = "BB_RSI" ->
           LET prev == iloc(df, 2)
           IN <<BB_RSI_BuyConfirm(prev), BB_RSI_SellConfirm(prev),
                BB_RSI_BuyEntry(prev), BB_RSI_SellEntry(prev)>>
      [] s = "RSI_MACD" -> RSI_MACD_fetch_coin_data([kind |-> "df", df |-> df])
      [] s = "BB_SuperTrend" ->
           LET last == iloc(df, 2)
               prev == iloc(df, 3)
           IN <<BB_ST_FlipBuy(last, prev), BB_ST_FlipSell(last, prev),
                last.Trend, last.rsi > 52, last.rsi < 52,
                last.close > last.upper, last.close < last.lower>>
      [] s = "BollingerBandBuySell" ->
           LET last == iloc(df, 2)
           IN <<BBBS_BuyEntry(last), BBBS_SellEntry(last), last.HA_Color,
                last.HA_Low, last.HA_High>>

\* Other values the live (still forming) bar of a frame could have.
LiveRows(s) ==
    CASE s = "BB_RSI" -> BB_RSI_Rows
      [] s = "RSI_MACD" -> RSI_MACD_LastRows
      [] s = "BB_SuperTrend" -> BB_ST_Rows
      [] s = "BollingerBandBuySell" -> BBBS_Rows

\* C3: the live bar (position len-1) never influences whether a signal
\* fires or which prices it carries: what a script evaluates on a fetched
\* frame is the same whatever the live bar is.
C3_LiveBarIgnored ==
    \A p \in Pairs :
        HasFrame(p) =>
            \A r \in LiveRows(script) :
                Evaluate(script, [market[p].df EXCEPT ![Len(market[p].df)] = r])
                    = Evaluate(script, market[p].df)

\* C4: an alert for a pair and side is emitted only if the pair was in that
\* side's watchlist as loaded at the start of the cycle; a pair that was not
\* and meets the entry condition is in the watchlist at the end of the
\* cycle, with no alert for it on that side.
C4_TwoStageOrdering ==
    [][CycleEnds =>
        \A p \in Pairs :
            /\ Alerted(sent'.buy, p) => Watched(buy_file, p)
            /\ Alerted(sent'.sell, p) => Watched(sell_file, p)
            /\ (EntryBuy(p) /\ ~Watched(buy_file, p)) =>
                   (Watched(buy_file', p) /\ ~Alerted(sent'.buy, p))
            /\ (EntrySell(p) /\ ~Watched(sell_file, p)) =>
                   (Watched(sell_file', p) /\ ~Alerted(sent'.sell, p))]_vars

\* C4, its case: at the end of the as_completed loop one watched pair has
\* its BUY alert and another pair, not watched at the start, is a candidate.
C4_Witness ==
    /\ script \in SetScripts
    /\ pc = "pool"
    /\ \A p \in Pairs : future[p] = "collected"
    /\ \E p, q \in Pairs :
          /\ p \in buy_file /\ Alerted(buy_signals, p)
          /\ q \notin buy_file /\ q \in new_buy_candidates /\ ~Alerted(buy_signals, q)

\* C5: in BB_SuperTrend, a pair with a BUY alert in a cycle is afterwards in
\* neither buy_watchlist nor Supertrend_buy_watchlist, unless a Bollinger
\* entry condition of that cycle re-adds it to buy_watchlist (SELL alike).
C5_AlertRemovesEntry ==
    [][(script = "BB_SuperTrend" /\ CycleEnds) =>
        \A p \in Pairs :
            /\ Alerted(sent'.buy, p) =>
                   /\ p \notin st_buy_file'
                   /\ p \in buy_file' => EntryBuy(p)
            /\ Alerted(sent'.sell, p) =>
                   /\ p \notin st_sell_file'
                   /\ p \in sell_file' => EntrySell(p)]_vars

\* A step of a worker task of the thread pool.
WorkerStep ==
    \E p \in Pairs : future[p] = "running" /\ (future'[p] # "running" \/ wpc'[p] # wpc[p])

\* C6: no worker task changes a watchlist, and while the pool runs the
\* watchlists change only once every task has completed.
C6_OnlyMainAfterPool ==
    [][(pc = "pool" /\ (buy_watchlist' # buy_watchlist \/ sell_watchlist' # sell_watchlist
                         \/ st_buy_watchlist' # st_buy_watchlist
                         \/ st_sell_watchlist' # st_sell_watchlist)) =>
        (~WorkerStep /\ \A p \in Pairs : future[p] # "running")]_vars

\* ------------------------------------------------------------------------
\* Properties of a whole cycle, for every script
\* ------------------------------------------------------------------------

\* The pairs of a watchlist, and the pairs a list of alerts is about.
PairsOf(watch) == {p \in Pairs : Watched(watch, p)}
AlertedPairs(alerts) == {p \in Pairs : Alerted(alerts, p)}

\* Pair p qualifies for an alert in this cycle: the confirmation (stage 2)
\* condition holds on the bars fetched for it and the watchlist as loaded.
\* In ReversalBuySell and SupertrendMomentum, where the worker decides, it is
\* that the task returned the signal with valid trade levels.
QualifiesBuy(p) ==
    CASE script = "BB_RSI" ->
           HasFrame(p) /\ BB_RSI_BuyFires(p, iloc(market[p].df, 2), buy_file, {})
      [] script = "RSI_MACD" ->
           HasFrame(p) /\ p \in buy_file /\ RSI_MACD_fetch_coin_data(market[p]).macd_buy
      [] script = "BB_SuperTrend" ->
           HasFrame(p)
           /\ \/ BB_ST_BuyFires(p, iloc(market[p].df, 2), iloc(market[p].df, 3), buy_file)
              \/ BB_ST_StBuyFires(p, iloc(market[p].df, 2), st_buy_file)
      [] script = "BollingerBandBuySell" ->
           /\ task[p] = "BUY" /\ HasFrame(p)
           /\ BBBS_BuyConfirm(p, iloc(market[p].df, 2), buy_file)
           /\ BBBS_calculate_trade_levels(iloc(market[p].df, 2).HA_High,
                                          buy_file[p].bb_low, "BUY") # None
      [] script = "ReversalBuySell" ->
           /\ result[p].kind = "results"
           /\ \E i \in DOMAIN result[p].list :
                 /\ result[p].list[i].action = "buy_signal"
                 /\ RBS_calculate_trade_levels(result[p].list[i].entry,
                                               result[p].list[i].sl, "BUY") # None
      [] script = "SupertrendMomentum" ->
           result[p].kind = "signal" /\ result[p].side = "BUY"
QualifiesSell(p) ==
    CASE script = "BB_RSI" ->
           HasFrame(p) /\ BB_RSI_SellFires(p, iloc(market[p].df, 2), sell_file, {})
      [] script = "RSI_MACD" ->
           HasFrame(p) /\ p \in sell_file /\ RSI_MACD_fetch_coin_data(market[p]).macd_sell
      [] script = "BB_SuperTrend" ->
           HasFrame(p)
           /\ \/ BB_ST_SellFires(p, iloc(market[p].df, 2), iloc(market[p].df, 3), sell_file)
              \/ BB_ST_StSellFires(p, iloc(market[p].df, 2), st_sell_file)
      [] script = "BollingerBandBuySell" ->
           /\ task[p] = "SELL" /\ HasFrame(p)
           /\ BBBS_SellConfirm(p, iloc(market[p].df, 2), sell_file)
           /\ BBBS_calculate_trade_levels(iloc(market[p].df, 2).HA_Low,
                                          sell_file[p].bb_high, "SELL") # None
      [] script = "ReversalBuySell" ->
           /\ result[p].kind = "results"
           /\ \E i \in DOMAIN result[p].list :
                 /\ result[p].list[i].action = "sell_signal"
                 /\ RBS_calculate_trade_levels(result[p].list[i].entry,
                                               result[p].list[i].sl, "SELL") # None
      [] script = "SupertrendMomentum" ->
           result[p].kind = "signal" /\ result[p].side = "SELL"

\* The outcome of a ReversalBuySell cycle when the tasks run one after the
\* other, each handled by main() before the next starts: whether pair p
\* ends in the BUY (SELL) watchlist.  No task returns a signal then.
RBS_SequentialBuy(p) ==
    LET inB == task[p] # "none" /\ find_entry(p, buy_file)
        inS == task[p] # "none" /\ find_entry(p, sell_file)
    IN IF ~HasFrame(p) THEN inB
       ELSE LET r == RBS_last_closed(market[p])
                keptB == inB /\ ~r.supertrend
                keptS == inS /\ r.supertrend
                addS == ~keptB /\ ~keptS /\ r.HA_close >= r.BB_upper /\ r.supertrend
            IN keptB \/ (~keptB /\ ~keptS /\ ~addS
                         /\ r.HA_close <= r.BB_lower /\ ~r.supertrend)
RBS_SequentialSell(p) ==
    LET inB == task[p] # "none" /\ find_entry(p, buy_file)
        inS == task[p] # "none" /\ find_entry(p, sell_file)
    IN IF ~HasFrame(p) THEN inS
       ELSE LET r == RBS_last_closed(market[p])
                keptB == inB /\ ~r.supertrend
                keptS == inS /\ r.supertrend
            IN keptS \/ (~keptB /\ ~keptS /\ r.HA_close >= r.BB_upper /\ r.supertrend)

\* The outcome of a cycle in one fixed completion order, from the
\* watchlists as loaded and the fetch results.
ExpectedBuyFile ==
    IF script = "ReversalBuySell" THEN {p \in Pairs : RBS_SequentialBuy(p)}
    ELSE (buy_file \ {p \in Pairs : QualifiesBuy(p)}) \cup {p \in Pairs : EntryBuy(p)}
ExpectedSellFile ==
    IF script = "ReversalBuySell" THEN {p \in Pairs : RBS_SequentialSell(p)}
    ELSE (sell_file \ {p \in Pairs : QualifiesSell(p)}) \cup {p \in Pairs : EntrySell(p)}
ExpectedBuyAlerts ==
    IF script = "ReversalBuySell" THEN {} ELSE {p \in Pairs : QualifiesBuy(p)}
ExpectedSellAlerts ==
    IF script = "ReversalBuySell" THEN {} ELSE {p \in Pairs : QualifiesSell(p)}

\* C7: for fixed fetch results and a fixed starting watchlist, the pairs
\* persisted in each watchlist and the alerts emitted are the same for every
\* order in which the tasks complete: every cycle ends as the cycle in one
\* fixed order does (BB_RSI, RSI_MACD, ReversalBuySell).
C7_OrderIndependent ==
    [][(script \in {"BB_RSI", "RSI_MACD", "ReversalBuySell"} /\ CycleEnds) =>
        /\ PairsOf(buy_file') = ExpectedBuyFile
        /\ PairsOf(sell_file') = ExpectedSellFile
        /\ AlertedPairs(sent'.buy) = ExpectedBuyAlerts
        /\ AlertedPairs(sent'.sell) = ExpectedSellAlerts]_vars

\* The fetch for pair p failed: an exception or an empty answer.
Failed(p) == task[p] # "none" /\ market[p].kind \in {"raise", "none"}

\* C8: a cycle in which fetches fail still completes, a pair whose fetch
\* failed has no alert, and every alert the pairs qualify for is emitted.
C8_FailureIsolation ==
    [][(pc = "pool" /\ pc' # "pool") =>
        /\ pc' = "idle"
        /\ \A p \in Pairs :
              /\ Failed(p) => (~Alerted(sent'.buy, p) /\ ~Alerted(sent'.sell, p))
              /\ QualifiesBuy(p) => Alerted(sent'.buy, p)
              /\ QualifiesSell(p) => Alerted(sent'.sell, p)]_vars

\* ------------------------------------------------------------------------
\* Specification SpecInd: the indicator loops, one bar per step
\* ------------------------------------------------------------------------
\* A call computes its columns row by row.  call.i is the index of the next
\* row (0 is the oldest bar); ret.prev and ret.cur are rows i-2 and i-1 with
\* the columns computed for them.  The input columns of each new row are
\* drawn when the loop reaches it.

\* Rows a call is followed for.
MaxRows == 13

\* np.nan, as the value of a column that has none.
NaN == -1

\* Closes and basic bands (lower, upper) of a bar: hl2 -/+ factor * ATR.
ST_Closes == {1, 3, 5}
ST_Bands == {<<1, 2>>, <<2, 4>>, <<3, 5>>, <<4, 5>>}

NoRow == [close |-> NaN]

\* --- Indicators.supertrend ----------------------------------------------
\* period, as passed by BB_SuperTrend (ST_LENGTH) and as defaulted.
Indicators_period == 10

\* Final upper band of row i, with the band never tightened (no ratchet).
Indicators_Final_UpperBand_Loose(UpperBand, prev) == UpperBand

\* Final upper / lower band of row i of the loop.
Indicators_Final_UpperBand(UpperBand, prev) ==
    IF UpperBand < prev.Final_UpperBand \/ prev.close > prev.Final_UpperBand
    THEN UpperBand ELSE prev.Final_UpperBand
Indicators_Final_LowerBand(LowerBand, prev) ==
    IF LowerBand > prev.Final_LowerBand \/ prev.close < prev.Final_LowerBand
    THEN LowerBand ELSE prev.Final_LowerBand

\* Row i of the frame supertrend returns, from row i-1 and the inputs.
Indicators_supertrend_row(i, close, b, prev) ==
    LET UpperBand == IF i < Indicators_period - 1 THEN NaN ELSE b[2]
        LowerBand == IF i < Indicators_period - 1 THEN NaN ELSE b[1]
        base == [close |-> close, UpperBand |-> UpperBand, LowerBand |-> LowerBand]
    IN IF i < Indicators_period
       THEN base @@ [Final_UpperBand |-> UpperBand, Final_LowerBand |-> LowerBand,
                     Supertrend |-> NaN, Trend |-> "None"]
       ELSE LET fu == Indicators_Final_UpperBand(UpperBand, prev)
                fl == Indicators_Final_LowerBand(LowerBand, prev)
            IN base @@ [Final_UpperBand |-> fu, Final_LowerBand |-> fl] @@
               (IF close > prev.Final_UpperBand
                THEN [Supertrend |-> fl, Trend |-> "BUY"]
                ELSE IF close < prev.Final_LowerBand
                THEN [Supertrend |-> fu, Trend |-> "SELL"]
                ELSE [Supertrend |-> prev.Supertrend, Trend |-> prev.Trend])

\* --- SupertrendScript.supertrend ------------------------------------------
SupertrendScript_period == 10

\* Row i: the trend is decided against the basic bands of row i-1.  The
\* final bands are not computed by this function; the row carries them as
\* Indicators.supertrend ratchets them, for reference.
SupertrendScript_supertrend_row(i, close, b, prev) ==
    LET UpperBand == IF i < SupertrendScript_period - 1 THEN NaN ELSE b[2]
        LowerBand == IF i < SupertrendScript_period - 1 THEN NaN ELSE b[1]
        base == [close |-> close, UpperBand |-> UpperBand, LowerBand |-> LowerBand,
                 Supertrend |-> NaN]
    IN IF i < SupertrendScript_period
       THEN base @@ [Final_UpperBand |-> UpperBand, Final_LowerBand |-> LowerBand,
                     Trend |-> "None"]
       ELSE base @@ [Final_UpperBand |-> Indicators_Final_UpperBand(UpperBand, prev),
                     Final_LowerBand |-> Indicators_Final_LowerBand(LowerBand, prev),
                     Trend |-> IF close > prev.UpperBand THEN "BUY"
                               ELSE IF close < prev.LowerBand THEN "SELL"
                               ELSE prev.Trend]

\* --- SupertrendMomentum.calculate_supertrend ------------------------------
\* Row i.  t0 is the value a row of the bool Series trend holds before the
\* loop writes it (it depends on the pandas version).
SM_calculate_supertrend_row(i, close, b, t0, prev) ==
    LET upper == b[2]
        lower == b[1]
        fu == IF i = 0 THEN upper
              ELSE IF upper < prev.fu \/ prev.close > prev.fu THEN upper ELSE prev.fu
        fl == IF i = 0 THEN lower
              ELSE IF lower > prev.fl \/ prev.close < prev.fl THEN lower ELSE prev.fl
        base == [close |-> close, upper |-> upper, lower |-> lower, fu |-> fu, fl |-> fl]
    IN IF i < SM_ST_LENGTH THEN base @@ [st |-> NaN, trend |-> t0]
       ELSE IF i = SM_ST_LENGTH THEN base @@ [st |-> fl, trend |-> TRUE]
       ELSE IF prev.st = prev.fu
       THEN (IF close <= fu THEN base @@ [st |-> fu, trend |-> FALSE]
             ELSE base @@ [st |-> fl, trend |-> TRUE])
       ELSE (IF close >= fl THEN base @@ [st |-> fl, trend |-> TRUE]
             ELSE base @@ [st |-> fu, trend |-> FALSE])

\* --- ReversalBuySell.calculate_supertrend ---------------------------------
\* Rows a loop that starts at row 1 is followed for.
MaxBars == 4

\* Heikin-Ashi wicks around the close: (HA_low, HA_high) - HA_close.
RBS_Wicks == {<<0, 0>>, <<-1, 1>>}

\* Row i: the direction is decided by the Heikin-Ashi extremes against the
\* basic bands of the same row.  The final bands are not computed by this
\* function; the row carries them as Indicators.supertrend ratchets them
\* (on HA_close), for reference.
RBS_calculate_supertrend_row(i, HA_close, w, b, prev) ==
    LET HA_low == HA_close + w[1]
        HA_high == HA_close + w[2]
        upperband == b[2]
        lowerband == b[1]
        base == [close |-> HA_close, HA_high |-> HA_high, HA_low |-> HA_low,
                 upperband |-> upperband, lowerband |-> lowerband,
                 Final_UpperBand |-> IF i = 0 THEN upperband
                                     ELSE Indicators_Final_UpperBand(upperband, prev),
                 Final_LowerBand |-> IF i = 0 THEN lowerband
                                     ELSE Indicators_Final_LowerBand(lowerband, prev)]
    IN IF i = 0 THEN base @@ [supertrend |-> TRUE, ST_value |-> 0]
       ELSE IF prev.supertrend
       THEN (IF HA_high < lowerband
             THEN base @@ [supertrend |-> FALSE, ST_value |-> upperband]
             ELSE base @@ [supertrend |-> TRUE, ST_value |-> lowerband])
       ELSE (IF HA_low > upperband
             THEN base @@ [supertrend |-> TRUE, ST_value |-> lowerband]
             ELSE base @@ [supertrend |-> FALSE, ST_value |-> upperband])

\* --- Heikin-Ashi --------------------------------------------------------------
\* Prices are whole multiples of 1 / HA_Unit, so that each halving of the
\* recurrence is exact over the rows a call is followed for (as it is in
\* binary floating point for prices of a few bits).
HA_Unit == 2 ^ (MaxBars + 1)

\* Raw prices (in whole units) and the well-formed candles over them.
HA_Prices == {1, 4}
HA_Candles ==
    {c \in [open : HA_Prices, high : HA_Prices, low : HA_Prices, close : HA_Prices] :
        /\ c.low <= c.open /\ c.low <= c.close
        /\ c.open <= c.high /\ c.close <= c.high}

\* The candle in units of 1 / HA_Unit.
HA_Scaled(c) ==
    [open |-> c.open * HA_Unit, high |-> c.high * HA_Unit,
     low |-> c.low * HA_Unit, close |-> c.close * HA_Unit]

\* max / min over the columns of one row.
RowMax(S) == CHOOSE x \in S : \A y \in S : y <= x
RowMin(S) == CHOOSE x \in S : \A y \in S : x <= y

\* (open + high + low + close) / 4
HA_Close_of(raw) == (raw.open + raw.high + raw.low + raw.close) \div 4

\* HA_Open of row i by the recurrence on the previous Heikin-Ashi row.
HA_Open_recurrence(i, raw, prev) ==
    IF i = 0 THEN (raw.open + raw.close) \div 2
    ELSE (prev.HA_Open + prev.HA_Close) \div 2

\* BB_RSI.heikin_ashi, row i.
BB_RSI_heikin_ashi_row(i, raw, prev) ==
    LET HA_Close == HA_Close_of(raw)
        HA_Open == HA_Open_recurrence(i, raw, prev)
    IN [raw |-> raw, HA_Close |-> HA_Close, HA_Open |-> HA_Open,
        HA_High |-> RowMax({raw.high, HA_Open, HA_Close}),
        HA_Low |-> RowMin({raw.low, HA_Open, HA_Close})]

\* BollingerBandBuySell.heikin_ashi, row i.
BBBS_heikin_ashi_row(i, raw, prev) ==
    LET HA_Close == HA_Close_of(raw)
        HA_Open == HA_Open_recurrence(i, raw, prev)
    IN [raw |-> raw, HA_Close |-> HA_Close, HA_Open |-> HA_Open,
        HA_High |-> RowMax({HA_Open, HA_Close, raw.high}),
        HA_Low |-> RowMin({HA_Open, HA_Close, raw.low}),
        HA_Color |-> IF HA_Close >= HA_Open THEN "GREEN" ELSE "RED"]

\* SupertrendMomentum.to_heikin_ashi, row i: the price columns of the
\* returned frame are the Heikin-Ashi ones.
SM_to_heikin_ashi_row(i, raw, prev) ==
    LET HA_Close == HA_Close_of(raw)
        HA_Open == HA_Open_recurrence(i, raw, prev)
        HA_High == RowMax({raw.high, HA_Open, HA_Close})
        HA_Low == RowMin({raw.low, HA_Open, HA_Close})
    IN [raw |-> raw, HA_Close |-> HA_Close, HA_Open |-> HA_Open,
        HA_High |-> HA_High, HA_Low |-> HA_Low,
        open |-> HA_Open, high |-> HA_High, low |-> HA_Low, close |-> HA_Close]

\* momentum.fetch_last_n_candles, the Heikin-Ashi columns of row i: the
\* extremes are taken over the raw columns.
momentum_heikin_ashi_row(i, raw, prev) ==
    [raw |-> raw, HA_Close |-> HA_Close_of(raw),
     HA_Open |-> HA_Open_recurrence(i, raw, prev),
     HA_High |-> RowMax({raw.high, raw.open, raw.close}),
     HA_Low |-> RowMin({raw.low, raw.open, raw.close})]

\* ReversalBuySell.calculate_heikin_ashi, row i (columns HA_open, HA_close,
\* HA_high, HA_low): HA_open is the mean of the previous raw open and close.
RBS_calculate_heikin_ashi_row(i, raw, prev) ==
    LET HA_close == HA_Close_of(raw)
        HA_open == IF i = 0 THEN (raw.open + raw.close) \div 2
                   ELSE (prev.raw.open + prev.raw.close) \div 2
    IN [raw |-> raw, HA_Close |-> HA_close, HA_Open |-> HA_open,
        HA_High |-> RowMax({HA_open, HA_close, raw.high}),
        HA_Low |-> RowMin({HA_open, HA_close, raw.low})]

HeikinAshiFunctions ==
    {"BB_RSI.heikin_ashi", "BollingerBandBuySell.heikin_ashi",
     "SupertrendMomentum.to_heikin_ashi", "momentum.fetch_last_n_candles",
     "ReversalBuySell.calculate_heikin_ashi"}

\* --- calculate_rsi -----------------------------------------------------------
\* Indicators.calculate_rsi, RSI_Buy_Sell.calculate_rsi and BB_RSI.calculate_rsi
\* have the same body; period is their parameter.
RSI_Periods == {2, 3}

\* A float as the exact ratio num / den; 0 / 0 is NaN.
Rat(num, den) == [num |-> num, den |-> den]
RSI_NaN == Rat(0, 0)

\* Row i of the Series calculate_rsi works on.  g / period^(i-1) and
\* l / period^(i-1) are the ewm(alpha=1/period, adjust=False) means of gain
\* and loss over rows 1..i (row 0 of delta is NaN and is skipped); the means
\* are NaN before row period (min_periods).
calculate_rsi_row(i, period, close, prev) ==
    IF i = 0
    THEN [close |-> close, gain |-> NaN, loss |-> NaN, g |-> 0, l |-> 0,
          warm |-> FALSE, rsi |-> RSI_NaN]
    ELSE LET delta == close - prev.close
             gain == IF delta > 0 THEN delta ELSE 0
             loss == IF delta < 0 THEN -delta ELSE 0
             g == IF i = 1 THEN gain ELSE (period - 1) * prev.g + gain * period ^ (i - 2)
             l == IF i = 1 THEN loss ELSE (period - 1) * prev.l + loss * period ^ (i - 2)
             warm == i >= period
             \* rs = avg_gain / avg_loss; rsi = 100 - (100 / (1 + rs))
             rsi == IF ~warm THEN RSI_NaN
                    ELSE IF l = 0 THEN (IF g = 0 THEN RSI_NaN ELSE Rat(100, 1))
                    ELSE Rat(100 * g, g + l)
         IN [close |-> close, gain |-> gain, loss |-> loss, g |-> g, l |-> l,
             warm |-> warm, rsi |-> rsi]

RSIFunctions ==
    {"Indicators.calculate_rsi", "RSI_Buy_Sell.calculate_rsi", "BB_RSI.calculate_rsi"}

\* --- ADX_Calculater.calculate_adx: the directional movements ---------------
\* A float of the frame: a number, or NaN (a missing price, or the shift(1)
\* of the first row).
ADX_NaN == [nan |-> TRUE, v |-> 0]
ADX_Num(x) == [nan |-> FALSE, v |-> x]
ADX_Prices == {ADX_Num(x) : x \in ST_Closes} \cup {ADX_NaN}

\* a - b on floats: NaN when either is.
ADX_Sub(a, b) == IF a.nan \/ b.nan THEN ADX_NaN ELSE ADX_Num(a.v - b.v)

\* a > b on floats: False when either is NaN.
ADX_Gt_Loose(a, b) == ~a.nan /\ ~b.nan /\ a.v >= b.v
ADX_Gt(a, b) == ~a.nan /\ ~b.nan /\ a.v > b.v

\* df[col].shift(1) at the row after prev.
ADX_Shift(prev, col) == IF prev = NoRow THEN ADX_NaN ELSE prev[col]

\* up_move, down_move, plus_dm and minus_dm of row i.
calculate_adx_row(i, high, low, prev) ==
    LET up_move == ADX_Sub(high, ADX_Shift(prev, "high"))
        down_move == ADX_Sub(ADX_Shift(prev, "low"), low)
    IN [i |-> i, high |-> high, low |-> low,
        up_move |-> up_move, down_move |-> down_move,
        plus_dm |-> IF ADX_Gt(up_move, down_move) /\ ADX_Gt(up_move, ADX_Num(0))
                    THEN up_move ELSE ADX_Num(0),
        minus_dm |-> IF ADX_Gt(down_move, up_move) /\ ADX_Gt(down_move, ADX_Num(0))
                     THEN down_move ELSE ADX_Num(0)]

\* --- the calls -------------------------------------------------------------
SupertrendFunctions ==
    {"Indicators.supertrend", "SupertrendScript.supertrend",
     "SupertrendMomentum.calculate_supertrend", "ReversalBuySell.calculate_supertrend"}

IndFunctions == SupertrendFunctions \cup HeikinAshiFunctions

\* A call has just started: no row is computed yet.
InitInd ==
    /\ script = "indicators"
    /\ pc = "idle"
    /\ market = [p \in Pairs |-> Unset]
    /\ future = [p \in Pairs |-> "none"]
    /\ result = [p \in Pairs |-> NoResult]
    /\ buy_watchlist = << >> /\ sell_watchlist = << >>
    /\ st_buy_watchlist = {} /\ st_sell_watchlist = {}
    /\ new_buy_candidates = {} /\ new_sell_candidates = {}
    /\ buy_signals = << >> /\ sell_signals = << >>
    /\ buy_file = << >> /\ sell_file = << >>
    /\ st_buy_file = {} /\ st_sell_file = {}
    /\ sent = NoMessage /\ prev_sent = NoMessage
    /\ repeat = FALSE
    /\ task = [p \in Pairs |-> "none"]
    /\ wpc = [p \in Pairs |-> "none"]
    /\ tmp = [p \in Pairs |-> << >>]
    /\ rebound = [buy |-> FALSE, sell |-> FALSE]
    /\ own = [buy |-> << >>, sell |-> << >>]
    /\ \/ \E fn \in IndFunctions : call = [fn |-> fn, i |-> 0]
       \/ call = [fn |-> "ADX_Calculater.calculate_adx", i |-> 0]
       \/ \E fn \in RSIFunctions, period \in RSI_Periods :
             call = [fn |-> fn, i |-> 0, period |-> period]
    /\ ret = [kind |-> "none", prev |-> NoRow, cur |-> NoRow]

\* The row computed for the new bar becomes ret.cur.
Computed(row) ==
    /\ ret' = [kind |-> "row", prev |-> ret.cur, cur |-> row]
    /\ call' = [call EXCEPT !.i = @ + 1]
    /\ UNCHANGED cycle

Indicators_supertrend_step ==
    /\ call.fn = "Indicators.supertrend" /\ call.i < MaxRows
    /\ \E close \in ST_Closes, b \in ST_Bands :
          Computed(Indicators_supertrend_row(call.i, close, b, ret.cur))

SupertrendScript_supertrend_step ==
    /\ call.fn = "SupertrendScript.supertrend" /\ call.i < MaxRows
    /\ \E close \in ST_Closes, b \in ST_Bands :
          Computed(SupertrendScript_supertrend_row(call.i, close, b, ret.cur))

SM_calculate_supertrend_step ==
    /\ call.fn = "SupertrendMomentum.calculate_supertrend" /\ call.i < MaxRows
    /\ \E close \in ST_Closes, b \in ST_Bands, t0 \in BOOLEAN :
          Computed(SM_calculate_supertrend_row(call.i, close, b, t0, ret.cur))

RBS_calculate_supertrend_step ==
    /\ call.fn = "ReversalBuySell.calculate_supertrend" /\ call.i < MaxBars
    /\ \E HA_close \in ST_Closes, w \in RBS_Wicks, b \in ST_Bands :
          Computed(RBS_calculate_supertrend_row(call.i, HA_close, w, b, ret.cur))

BB_RSI_heikin_ashi_step ==
    /\ call.fn = "BB_RSI.heikin_ashi" /\ call.i < MaxBars
    /\ \E c \in HA_Candles :
          Computed(BB_RSI_heikin_ashi_row(call.i, HA_Scaled(c), ret.cur))

BBBS_heikin_ashi_step ==
    /\ call.fn = "BollingerBandBuySell.heikin_ashi" /\ call.i < MaxBars
    /\ \E c \in HA_Candles :
          Computed(BBBS_heikin_ashi_row(call.i, HA_Scaled(c), ret.cur))

SM_to_heikin_ashi_step ==
    /\ call.fn = "SupertrendMomentum.to_heikin_ashi" /\ call.i < MaxBars
    /\ \E c \in HA_Candles :
          Computed(SM_to_heikin_ashi_row(call.i, HA_Scaled(c), ret.cur))

momentum_heikin_ashi_step ==
    /\ call.fn = "momentum.fetch_last_n_candles" /\ call.i < MaxBars
    /\ \E c \in HA_Candles :
          Computed(momentum_heikin_ashi_row(call.i, HA_Scaled(c), ret.cur))

RBS_calculate_heikin_ashi_step ==
    /\ call.fn = "ReversalBuySell.calculate_heikin_ashi" /\ call.i < MaxBars
    /\ \E c \in HA_Candles :
          Computed(RBS_calculate_heikin_ashi_row(call.i, HA_Scaled(c), ret.cur))

calculate_rsi_step ==
    /\ call.fn \in RSIFunctions /\ call.i < MaxBars
    /\ \E close \in ST_Closes :
          Computed(calculate_rsi_row(call.i, call.period, close, ret.cur))

calculate_adx_step ==
    /\ call.fn = "ADX_Calculater.calculate_adx" /\ call.i < MaxBars
    /\ \E high \in ADX_Prices, low \in ADX_Prices :
          Computed(calculate_adx_row(call.i, high, low, ret.cur))

NextInd ==
    \/ Indicators_supertrend_step
    \/ SupertrendScript_supertrend_step
    \/ SM_calculate_supertrend_step
    \/ RBS_calculate_supertrend_step
    \/ BB_RSI_heikin_ashi_step
    \/ BBBS_heikin_ashi_step
    \/ SM_to_heikin_ashi_step
    \/ momentum_heikin_ashi_step
    \/ RBS_calculate_heikin_ashi_step
    \/ calculate_rsi_step
    \/ calculate_adx_step

SpecInd == InitInd /\ [][NextInd]_vars

\* ------------------------------------------------------------------------
\* Properties of the indicator loops
\* ------------------------------------------------------------------------

\* The final (ratcheted) bands and the close of a row.
FinalUpper(row) == IF "fu" \in DOMAIN row THEN row.fu ELSE row.Final_UpperBand
FinalLower(row) == IF "fl" \in DOMAIN row THEN row.fl ELSE row.Final_LowerBand

\* Index of the row in ret.cur.
CurIndex == call.i - 1

\* ret.cur was computed by the loop that ratchets the final bands.
InRatchetLoop ==
    /\ ret.kind = "row"
    /\ \/ call.fn = "Indicators.supertrend" /\ CurIndex >= Indicators_period
       \/ call.fn = "SupertrendMomentum.calculate_supertrend" /\ CurIndex >= 1

\* C11: in Indicators.supertrend and SupertrendMomentum.calculate_supertrend,
\* for every index i of the loop, if close(i-1) <= FinalUpper(i-1) then
\* FinalUpper(i) <= FinalUpper(i-1), and if close(i-1) >= FinalLower(i-1)
\* then FinalLower(i) >= FinalLower(i-1).
C11_SupertrendRatchet ==
    InRatchetLoop =>
        /\ ret.prev.close <= FinalUpper(ret.prev) =>
               FinalUpper(ret.cur) <= FinalUpper(ret.prev)
        /\ ret.prev.close >= FinalLower(ret.prev) =>
               FinalLower(ret.cur) >= FinalLower(ret.prev)

\* C11, its case: Indicators.supertrend holds the final upper band below a
\* basic upper band that rose while the close stayed under the final band.
C11_Witness ==
    /\ InRatchetLoop
    /\ call.fn = "Indicators.supertrend"
    /\ ret.prev.close <= ret.prev.Final_UpperBand
    /\ ret.cur.UpperBand > ret.prev.Final_UpperBand
    /\ ret.cur.Final_UpperBand = ret.prev.Final_UpperBand

\* The direction of a row: "up", "down", or "none" before the first flip.
TrendOf(row) ==
    IF "Trend" \in DOMAIN row
    THEN (CASE row.Trend = "BUY" -> "up" [] row.Trend = "SELL" -> "down"
            [] OTHER -> "none")
    ELSE IF "trend" \in DOMAIN row THEN (IF row.trend THEN "up" ELSE "down")
    ELSE (IF row.supertrend THEN "up" ELSE "down")

\* ret.cur was computed by the loop that decides the trend.
InTrendLoop ==
    /\ ret.kind = "row"
    /\ \/ call.fn = "Indicators.supertrend" /\ CurIndex >= Indicators_period
       \/ call.fn = "SupertrendScript.supertrend" /\ CurIndex >= SupertrendScript_period
       \/ call.fn = "SupertrendMomentum.calculate_supertrend" /\ CurIndex >= SM_ST_LENGTH + 1
       \/ call.fn = "ReversalBuySell.calculate_supertrend" /\ CurIndex >= 1

\* C12: in every Supertrend implementation the trend at bar i is up exactly
\* when close(i) is above the final upper band of bar i-1, down exactly when
\* close(i) is below the final lower band of bar i-1, and otherwise the
\* trend of bar i-1.
C12_FlipRule ==
    InTrendLoop =>
        LET above == ret.cur.close > FinalUpper(ret.prev)
            below == ret.cur.close < FinalLower(ret.prev)
        IN /\ (above /\ ~below) => TrendOf(ret.cur) = "up"
           /\ (below /\ ~above) => TrendOf(ret.cur) = "down"
           /\ (~above /\ ~below) => TrendOf(ret.cur) = TrendOf(ret.prev)


\* ret.cur is a row of a Heikin-Ashi frame.
InHeikinAshi == ret.kind = "row" /\ call.fn \in HeikinAshiFunctions

\* x lies between a and b inclusive.
Between(x, a, b) == (a <= x /\ x <= b) \/ (b <= x /\ x <= a)

\* C13: in every Heikin-Ashi implementation HA_Open(0) = (O(0) + C(0)) / 2,
\* and for every i >= 1 HA_Open(i) is exactly the average of HA_Open(i-1)
\* and HA_Close(i-1), hence lies between them inclusive.
C13_HAOpenRecurrence ==
    InHeikinAshi =>
        IF CurIndex = 0
        THEN 2 * ret.cur.HA_Open = ret.cur.raw.open + ret.cur.raw.close
        ELSE /\ 2 * ret.cur.HA_Open = ret.prev.HA_Open + ret.prev.HA_Close
             /\ Between(ret.cur.HA_Open, ret.prev.HA_Open, ret.prev.HA_Close)


\* C14: in every Heikin-Ashi implementation, for every bar
\* HA_High = max(HA_Open, HA_Close, raw High) and
\* HA_Low = min(HA_Open, HA_Close, raw Low), so that
\* HA_Low <= HA_Open <= HA_High and HA_Low <= HA_Close <= HA_High.
C14_HARange ==
    InHeikinAshi =>
        LET r == ret.cur
        IN /\ r.HA_High = RowMax({r.HA_Open, r.HA_Close, r.raw.high})
           /\ r.HA_Low = RowMin({r.HA_Open, r.HA_Close, r.raw.low})
           /\ r.HA_Low <= r.HA_Open /\ r.HA_Open <= r.HA_High
           /\ r.HA_Low <= r.HA_Close /\ r.HA_Close <= r.HA_High


\* C20: at every warmed-up index where the smoothed average loss is 0,
\* calculate_rsi returns exactly 100, never NaN, also when the smoothed
\* average gain is 0 as well (flat series).
C20_RSIZeroLoss ==
    (ret.kind = "row" /\ call.fn \in RSIFunctions /\ ret.cur.warm /\ ret.cur.l = 0)
        => ret.cur.rsi = Rat(100, 1)


\* ------------------------------------------------------------------------
\* Specification SpecLoad: main() loading its watchlist files
\* ------------------------------------------------------------------------
\* call.files is what the files of the script hold when main() starts, in
\* the order main() loads them; ret.loaded is what the loads returned so far.

\* What a file can hold: no file, text that is not JSON (empty, truncated),
\* or a JSON value of one of these shapes:
\*   "number"           5
\*   "list of strings"  ["BTC"]                (BB_RSI, RSI_MACD, BB_SuperTrend)
\*   "list of lists"    [["BTC"]]
\*   "list of objects"  [{"pair": "BTC"}]
\*   "list of entries"  [{"pair": "BTC", "entry_state": false, ...}]  (ReversalBuySell)
\*   "object"           {"BTC": {"bb_low": 1}}  (BollingerBandBuySell)
JSONShapes ==
    {"number", "list of strings", "list of lists", "list of objects",
     "list of entries", "object"}
FileMissing == [kind |-> "missing", json |-> "none"]
FileUnparseable == [kind |-> "text", json |-> "invalid"]
FileContents ==
    {FileMissing, FileUnparseable} \cup {[kind |-> "text", json |-> j] : j \in JSONShapes}

Returned(value) == [kind |-> "return", value |-> value]
Raised(exc) == [kind |-> "raise", value |-> exc]

\* load_watchlist of BB_RSI (RSI_MACD and BB_SuperTrend have the same body):
\* set(json.load(f)) when the file exists, else set().
BB_RSI_load_watchlist(file) ==
    IF file.kind = "missing" THEN Returned("empty")
    ELSE CASE file.json = "invalid" -> Raised("JSONDecodeError")
           [] file.json = "number" -> Raised("TypeError")
           [] file.json = "list of strings" -> Returned("set of strings")
           [] file.json = "object" -> Returned("set of strings")
           [] OTHER -> Raised("TypeError")

\* ReversalBuySell.load_watchlist: any exception gives [].
RBS_load_watchlist(file) ==
    IF file.kind = "text" /\ file.json = "list of entries"
    THEN Returned("list of entries") ELSE Returned("empty")

\* BollingerBandBuySell.main: json.load(open(FILE)), {} on FileNotFoundError.
BBBS_main_load(file) ==
    IF file.kind = "missing" THEN Returned("empty")
    ELSE IF file.json = "invalid" THEN Raised("JSONDecodeError")
    ELSE Returned(file.json)

\* The number of files main() loads.
FilesOf(fn) == IF fn = "BB_SuperTrend.main" THEN 4 ELSE 2

LoadFunctions ==
    {"BB_RSI.main", "RSI_MACD.main", "BB_SuperTrend.main",
     "BollingerBandBuySell.main", "ReversalBuySell.main"}

InitLoad ==
    /\ script = "loading"
    /\ pc = "idle"
    /\ market = [p \in Pairs |-> Unset]
    /\ future = [p \in Pairs |-> "none"]
    /\ result = [p \in Pairs |-> NoResult]
    /\ buy_watchlist = << >> /\ sell_watchlist = << >>
    /\ st_buy_watchlist = {} /\ st_sell_watchlist = {}
    /\ new_buy_candidates = {} /\ new_sell_candidates = {}
    /\ buy_signals = << >> /\ sell_signals = << >>
    /\ buy_file = << >> /\ sell_file = << >>
    /\ st_buy_file = {} /\ st_sell_file = {}
    /\ sent = NoMessage /\ prev_sent = NoMessage
    /\ repeat = FALSE
    /\ task = [p \in Pairs |-> "none"]
    /\ wpc = [p \in Pairs |-> "none"]
    /\ tmp = [p \in Pairs |-> << >>]
    /\ rebound = [buy |-> FALSE, sell |-> FALSE]
    /\ own = [buy |-> << >>, sell |-> << >>]
    /\ \E fn \in LoadFunctions :
          \E fs \in [1..FilesOf(fn) -> FileContents] : call = [fn |-> fn, files |-> fs]
    /\ ret = [kind |-> "loading", loaded |-> << >>]

\* main() has the next load return r: an exception ends the run.
Loaded(r) ==
    /\ ret' = [kind |-> IF r.kind = "raise" THEN "crashed"
                        ELSE IF Len(ret.loaded) + 1 = FilesOf(call.fn) THEN "proceeds"
                        ELSE "loading",
               loaded |-> Append(ret.loaded, r)]
    /\ UNCHANGED <<cycle, call>>

\* The file the next load reads.
NextFile == call.files[Len(ret.loaded) + 1]

BB_RSI_main_load ==
    /\ call.fn = "BB_RSI.main" /\ ret.kind = "loading"
    /\ Loaded(BB_RSI_load_watchlist(NextFile))

RSI_MACD_main_load ==
    /\ call.fn = "RSI_MACD.main" /\ ret.kind = "loading"
    /\ Loaded(BB_RSI_load_watchlist(NextFile))

BB_SuperTrend_main_load ==
    /\ call.fn = "BB_SuperTrend.main" /\ ret.kind = "loading"
    /\ Loaded(BB_RSI_load_watchlist(NextFile))

BBBS_main_load_step ==
    /\ call.fn = "BollingerBandBuySell.main" /\ ret.kind = "loading"
    /\ Loaded(BBBS_main_load(NextFile))

RBS_main_load ==
    /\ call.fn = "ReversalBuySell.main" /\ ret.kind = "loading"
    /\ Loaded(RBS_load_watchlist(NextFile))

NextLoad ==
    \/ BB_RSI_main_load
    \/ RSI_MACD_main_load
    \/ BB_SuperTrend_main_load
    \/ BBBS_main_load_step
    \/ RBS_main_load

SpecLoad == InitLoad /\ [][NextLoad]_vars

\* The shape the script itself writes.
OwnShape(fn) ==
    CASE fn = "ReversalBuySell.main" -> "list of entries"
      [] fn = "BollingerBandBuySell.main" -> "object"
      [] OTHER -> "list of strings"

\* The file is missing or holds corrupt (unparseable or wrongly shaped) content.
MissingOrCorrupt(fn, file) == file.kind = "missing" \/ file.json # OwnShape(fn)

\* C15: when a watchlist file is missing or holds corrupt (unparseable or
\* wrongly shaped) content, loading yields the empty watchlist and the cycle
\* proceeds, in every watchlist scanner.
C15_LoadNeverFails ==
    call.fn \in LoadFunctions =>
        /\ ret.kind # "crashed"
        /\ \A i \in DOMAIN ret.loaded :
              MissingOrCorrupt(call.fn, call.files[i]) => ret.loaded[i] = Returned("empty")


\* The confirmation or invalidation condition of pair p's BUY (SELL) entry
\* holds on the last closed bar fetched for it in this cycle (BB_RSI,
\* RSI_MACD: the confirmation; ReversalBuySell: the Supertrend side that
\* both invalidates and confirms).
ExitBuy(p) ==
    CASE script = "BB_RSI" -> HasFrame(p) /\ BB_RSI_BuyConfirm(iloc(market[p].df, 2))
      [] script = "RSI_MACD" -> HasFrame(p) /\ RSI_MACD_fetch_coin_data(market[p]).macd_buy
      [] script = "ReversalBuySell" -> HasFrame(p) /\ RBS_last_closed(market[p]).supertrend
      [] OTHER -> TRUE
ExitSell(p) ==
    CASE script = "BB_RSI" -> HasFrame(p) /\ BB_RSI_SellConfirm(iloc(market[p].df, 2))
      [] script = "RSI_MACD" -> HasFrame(p) /\ RSI_MACD_fetch_coin_data(market[p]).macd_sell
      [] script = "ReversalBuySell" -> HasFrame(p) /\ ~RBS_last_closed(market[p]).supertrend
      [] OTHER -> TRUE

\* C16: a watched pair leaves the watchlist only in a cycle where its own
\* confirmation or invalidation condition holds on its last closed bar, or
\* an alert is emitted for it (BB_RSI, RSI_MACD, ReversalBuySell).
C16_WatchEntryLifecycle ==
    [][CycleEnds =>
        \A p \in Pairs :
           /\ (Watched(buy_file, p) /\ ~Watched(buy_file', p))
                 => (ExitBuy(p) \/ Alerted(sent'.buy, p))
           /\ (Watched(sell_file, p) /\ ~Watched(sell_file', p))
                 => (ExitSell(p) \/ Alerted(sent'.sell, p))]_vars


\* ------------------------------------------------------------------------
\* Properties of BollingerBandBuySell.process
\* ------------------------------------------------------------------------

\* This step is process(p, side) run on a fetched frame.
BBBS_Processed(p) ==
    /\ script = "BollingerBandBuySell"
    /\ future[p] = "running" /\ future'[p] = "done"
    /\ market'[p].kind = "df"

\* The last closed bar process(p, side) has read.
BBBS_last(p) == iloc(market'[p].df, 2)

\* C17: a pair in the BUY watchlist is removed without an alert when the
\* upper Bollinger band is touched before the entry (GREEN) candle appears,
\* a pair in the SELL watchlist when the lower band is touched before the
\* entry (RED) candle; entry hit and opposite-band touch are the only two
\* ways an entry is removed.
C17_BBBSInvalidation ==
    [][\A p \in Pairs : BBBS_Processed(p) =>
          LET last == BBBS_last(p)
              inBuy == p \in DOMAIN buy_watchlist
              inSell == p \in DOMAIN sell_watchlist
          IN /\ (task[p] = "BUY" /\ inBuy /\ last.HA_Color # "GREEN"
                    /\ last.high >= last.UpperBB)
                   => (p \notin DOMAIN buy_watchlist' /\ buy_signals' = buy_signals)
             /\ (task[p] = "SELL" /\ inSell /\ last.HA_Color # "RED"
                    /\ last.low <= last.LowerBB)
                   => (p \notin DOMAIN sell_watchlist' /\ sell_signals' = sell_signals)
             /\ (inBuy /\ p \notin DOMAIN buy_watchlist')
                   => (last.HA_Color = "GREEN" \/ last.high >= last.UpperBB)
             /\ (inSell /\ p \notin DOMAIN sell_watchlist')
                   => (last.HA_Color = "RED" \/ last.low <= last.LowerBB)]_vars


\* The BUY / SELL dict as it stands: in memory while the pool runs, in the
\* file between two cycles.
BBBS_BuyStore == IF pc = "pool" THEN buy_watchlist ELSE buy_file
BBBS_SellStore == IF pc = "pool" THEN sell_watchlist ELSE sell_file

\* The alert process(p, side) has appended in this step, if any.
BBBS_BuyAlert == buy_signals'[Len(buy_signals')]
BBBS_SellAlert == sell_signals'[Len(sell_signals')]

BBBS_StoredAtLatestTouch ==
    script = "BollingerBandBuySell" =>
        \A p \in Pairs :
           /\ (BBBS_Processed(p) /\ task[p] = "BUY" /\ BBBS_BuyEntry(BBBS_last(p)))
                 => buy_watchlist'[p].bb_low = BBBS_last(p).HA_Low
           /\ (BBBS_Processed(p) /\ task[p] = "SELL" /\ BBBS_SellEntry(BBBS_last(p)))
                 => sell_watchlist'[p].bb_high = BBBS_last(p).HA_High
           /\ (p \in DOMAIN BBBS_BuyStore /\ p \in DOMAIN BBBS_BuyStore'
                  /\ BBBS_BuyStore'[p] # BBBS_BuyStore[p])
                 => (BBBS_Processed(p) /\ task[p] = "BUY" /\ BBBS_BuyEntry(BBBS_last(p)))
           /\ (p \in DOMAIN BBBS_SellStore /\ p \in DOMAIN BBBS_SellStore'
                  /\ BBBS_SellStore'[p] # BBBS_SellStore[p])
                 => (BBBS_Processed(p) /\ task[p] = "SELL" /\ BBBS_SellEntry(BBBS_last(p)))

C19_BBBSConfirmation ==
    [][\A p \in Pairs : BBBS_Processed(p) =>
          LET last == BBBS_last(p)
          IN /\ (p \in DOMAIN buy_watchlist /\ last.HA_Color = "GREEN")
                   => /\ Len(buy_signals') > Len(buy_signals)
                      /\ BBBS_BuyAlert.pair = p
                      /\ p \notin DOMAIN buy_watchlist'
             /\ (p \in DOMAIN sell_watchlist /\ last.HA_Color = "RED")
                   => /\ Len(sell_signals') > Len(sell_signals)
                      /\ BBBS_SellAlert.pair = p
                      /\ p \notin DOMAIN sell_watchlist']_vars


\* C28: whenever ReversalBuySell.calculate_trade_levels returns levels, the
\* leverage L is in MIN_LEVERAGE..MAX_ALLOWED_LEVERAGE and the implied loss
\* |entry - sl| / entry * CAPITAL_RS * L does not exceed MAX_LOSS_RS.
C28_RBSLossCap ==
    (call.fn = "ReversalBuySell.calculate_trade_levels" /\ ret.kind = "levels") =>
        /\ ret.leverage >= RBS_MIN_LEVERAGE
        /\ ret.leverage <= RBS_MAX_ALLOWED_LEVERAGE
        /\ CallRisk * RBS_CAPITAL_RS * ret.leverage <= RBS_MAX_LOSS_RS * call.entry


\* The configuration of the quantity-based sizing function under check.
SizingConfig ==
    IF call.fn = "BollingerBandBuySell.calculate_trade_levels"
    THEN [capital |-> BBBS_CAPITAL_RS, maxloss |-> BBBS_MAX_LOSS_RS,
          maxlev |-> BBBS_MAX_ALLOWED_LEVERAGE]
    ELSE [capital |-> SM_CAPITAL_RS, maxloss |-> SM_MAX_LOSS_RS,
          maxlev |-> SM_MAX_ALLOWED_LEVERAGE]

SizingFunctions ==
    {"BollingerBandBuySell.calculate_trade_levels",
     "SupertrendMomentum.calculate_trade_levels"}

InADX == ret.kind = "row" /\ call.fn = "ADX_Calculater.calculate_adx"

C30_DirectionalMovement ==
    InADX =>
        LET r == ret.cur
            up == r.up_move
            down == r.down_move
            upWins == ~up.nan /\ ~down.nan /\ up.v > 0 /\ up.v > down.v
            downWins == ~up.nan /\ ~down.nan /\ down.v > 0 /\ down.v > up.v
        IN /\ ~r.plus_dm.nan /\ r.plus_dm.v >= 0
           /\ ~r.minus_dm.nan /\ r.minus_dm.v >= 0
           /\ r.plus_dm.v = 0 \/ r.minus_dm.v = 0
           /\ r.plus_dm.v = (IF upWins THEN up.v ELSE 0)
           /\ r.minus_dm.v = (IF downWins THEN down.v ELSE 0)
           /\ (~up.nan /\ up = down) => (r.plus_dm.v = 0 /\ r.minus_dm.v = 0)

\* Both moves are positive and equal (an outside bar): neither counts.
C30_Witness ==
    /\ InADX
    /\ ~ret.cur.up_move.nan /\ ret.cur.up_move.v > 0
    /\ ret.cur.up_move = ret.cur.down_move



\* C21: fetch_and_check returns a BUY signal whenever the CCI of the last
\* closed bar is above CCI_UPPER and the CCI of each of the preceding
\* PREV_CANDLES closed bars is at or below CCI_UPPER, and a SELL signal
\* whenever the last closed bar's CCI is below CCI_LOWER and each of the
\* preceding PREV_CANDLES bars is at or above CCI_LOWER, each bar's CCI
\* being that bar's own indicator value.
CCI_OwnLast == iloc(call.cci, 2)
CCI_OwnWindow == {call.cci[k] : k \in (Len(call.cci) - PREV_CANDLES - 1)..(Len(call.cci) - 2)}

C21_FirstCross ==
    (call.fn = "CCISetup.fetch_and_check" /\ ret.kind # "none") =>
        /\ (/\ CCI_OwnLast > CCI_UPPER * CCI_Unit
            /\ \A x \in CCI_OwnWindow : x <= CCI_UPPER * CCI_Unit)
              => (ret.kind = "signal" /\ ret.signal = "BUY")
        /\ (/\ CCI_OwnLast < CCI_LOWER * CCI_Unit
            /\ \A x \in CCI_OwnWindow : x >= CCI_LOWER * CCI_Unit)
              => (ret.kind = "signal" /\ ret.signal = "SELL")



\* ------------------------------------------------------------------------
\* Specification SpecTrigger: RSI_Buy_Sell.fetch_coin_data, evaluation after
\* evaluation within one process
\* ------------------------------------------------------------------------
\* ret.alerted_coins is the module-level dict, ret.evals the evaluations made
\* so far: the pair, its last RSI, the state the evaluation read and the two
\* signals it returned.
RSI_Buy_Sell_RSI_OVERBOUGHT == 73
RSI_Buy_Sell_RSI_OVERSOLD == 27

MaxEvals == 4

\* df['rsi'].iloc[-1]: a number, or NaN (fewer than RSI_PERIOD + 1 bars, or
\* both smoothed averages 0).
LastRSIs == {20, 27, 50, 73, 80, NaN}

\* a > b and a < b on floats: False when a is NaN.
Float_Gt(a, b) == a # NaN /\ a > b
Float_Lt(a, b) == a # NaN /\ a < b

\* The dict after fetch_coin_data(pair) read coin_state and saw last_rsi.
alerted_coins_after(d, pair, coin_state, last_rsi) ==
    IF Float_Gt(last_rsi, RSI_Buy_Sell_RSI_OVERBOUGHT)
    THEN IF coin_state # "overbought" THEN [d EXCEPT ![pair] = "overbought"] ELSE d
    ELSE IF Float_Lt(last_rsi, RSI_Buy_Sell_RSI_OVERSOLD)
         THEN IF coin_state # "oversold" THEN [d EXCEPT ![pair] = "oversold"] ELSE d
         ELSE [d EXCEPT ![pair] = "neutral"]

InitTrigger ==
    /\ script = "RSI_Buy_Sell"
    /\ pc = "idle"
    /\ market = [p \in Pairs |-> Unset]
    /\ future = [p \in Pairs |-> "none"]
    /\ result = [p \in Pairs |-> NoResult]
    /\ buy_watchlist = << >> /\ sell_watchlist = << >>
    /\ st_buy_watchlist = {} /\ st_sell_watchlist = {}
    /\ new_buy_candidates = {} /\ new_sell_candidates = {}
    /\ buy_signals = << >> /\ sell_signals = << >>
    /\ buy_file = << >> /\ sell_file = << >>
    /\ st_buy_file = {} /\ st_sell_file = {}
    /\ sent = NoMessage /\ prev_sent = NoMessage
    /\ repeat = FALSE
    /\ task = [p \in Pairs |-> "none"]
    /\ wpc = [p \in Pairs |-> "none"]
    /\ tmp = [p \in Pairs |-> << >>]
    /\ rebound = [buy |-> FALSE, sell |-> FALSE]
    /\ own = [buy |-> << >>, sell |-> << >>]
    /\ call = [fn |-> "RSI_Buy_Sell.fetch_coin_data"]
    /\ ret = [kind |-> "evals", alerted_coins |-> [p \in Pairs |-> "missing"], evals |-> << >>]

\* One evaluation of a pair that fetched a frame.
fetch_coin_data ==
    /\ call.fn = "RSI_Buy_Sell.fetch_coin_data" /\ Len(ret.evals) < MaxEvals
    /\ \E pair \in Pairs, last_rsi \in LastRSIs :
          LET coin_state == IF ret.alerted_coins[pair] = "missing" THEN "neutral"
                            ELSE ret.alerted_coins[pair]
              buy_signal == /\ Float_Gt(last_rsi, RSI_Buy_Sell_RSI_OVERBOUGHT)
                            /\ coin_state # "overbought"
              sell_signal == /\ ~Float_Gt(last_rsi, RSI_Buy_Sell_RSI_OVERBOUGHT)
                             /\ Float_Lt(last_rsi, RSI_Buy_Sell_RSI_OVERSOLD)
                             /\ coin_state # "oversold"
          IN ret' = [ret EXCEPT
                        !.alerted_coins =
                            alerted_coins_after(@, pair, coin_state, last_rsi),
                        !.evals = Append(@, [pair |-> pair, rsi |-> last_rsi,
                                             coin_state |-> coin_state,
                                             buy_signal |-> buy_signal,
                                             sell_signal |-> sell_signal])]
    /\ UNCHANGED <<cycle, call>>

NextTrigger == fetch_coin_data

SpecTrigger == InitTrigger /\ [][NextTrigger]_vars

\* C23: buy_signal is true on an evaluation exactly when RSI > RSI_OVERBOUGHT
\* and the pair's stored state is not "overbought", and between any two
\* evaluations of a pair returning buy_signal there is an evaluation of it
\* with RSI <= RSI_OVERBOUGHT; symmetrically for sell_signal and RSI_OVERSOLD.
Evals == ret.evals
EvalsBetween(i, j) == {k \in (i + 1)..(j - 1) : Evals[k].pair = Evals[i].pair}

BuyExpected(e) ==
    e.rsi # NaN /\ e.rsi > RSI_Buy_Sell_RSI_OVERBOUGHT /\ e.coin_state # "overbought"
SellExpected(e) ==
    e.rsi # NaN /\ e.rsi < RSI_Buy_Sell_RSI_OVERSOLD /\ e.coin_state # "oversold"
BackInside(i, j) ==
    \E k \in EvalsBetween(i, j) :
        Evals[k].rsi # NaN /\ Evals[k].rsi <= RSI_Buy_Sell_RSI_OVERBOUGHT
BackAbove(i, j) ==
    \E k \in EvalsBetween(i, j) :
        Evals[k].rsi # NaN /\ Evals[k].rsi >= RSI_Buy_Sell_RSI_OVERSOLD

C23_TriggerOnce ==
    (call.fn = "RSI_Buy_Sell.fetch_coin_data") =>
        /\ \A j \in 1..Len(Evals) :
              /\ (Evals[j].buy_signal <=> BuyExpected(Evals[j]))
              /\ (Evals[j].sell_signal <=> SellExpected(Evals[j]))
        /\ \A i \in 1..Len(Evals) : \A j \in (i + 1)..Len(Evals) :
              (Evals[i].pair = Evals[j].pair) =>
                 /\ ((Evals[i].buy_signal /\ Evals[j].buy_signal) => BackInside(i, j))
                 /\ ((Evals[i].sell_signal /\ Evals[j].sell_signal) => BackAbove(i, j))



\* C26: BB_SuperTrend emits at most one BUY alert and at most one SELL alert
\* per pair per cycle, whatever the pair's membership in buy_watchlist,
\* sell_watchlist, Supertrend_buy_watchlist and Supertrend_sell_watchlist.
AlertsFor(alerts, p) == Cardinality({k \in 1..Len(alerts) : alerts[k].pair = p})

C26_OneAlertPerSide ==
    script = "BB_SuperTrend" =>
        \A p \in Pairs : AlertsFor(buy_signals, p) <= 1 /\ AlertsFor(sell_signals, p) <= 1



\* C25: in BB_RSI, RSI_MACD and BB_SuperTrend, a pair whose fetch failed or
\* returned no data in a cycle is, at the end of the cycle, in exactly the
\* persisted watchlists it was in at the start of the cycle, and no alert is
\* emitted for it.
C25_FailedFetchNoOp ==
    [][(script \in SetScripts /\ CycleEnds) =>
        \A p \in Pairs :
            Failed(p) =>
                /\ (p \in buy_file') = (p \in buy_file)
                /\ (p \in sell_file') = (p \in sell_file)
                /\ (p \in st_buy_file') = (p \in st_buy_file)
                /\ (p \in st_sell_file') = (p \in st_sell_file)
                /\ ~Alerted(sent'.buy, p) /\ ~Alerted(sent'.sell, p)]_vars

\* A cycle has ended in which the fetch of a watched pair failed and the
\* other pair was alerted and left its watchlist.
C25_Witness ==
    /\ script \in RerunScripts /\ pc = "idle" /\ ~repeat
    /\ \E p \in Pairs, q \in Pairs :
          /\ market[p].kind \in {"raise", "none"}
          /\ p \in buy_file
          /\ Alerted(sent.buy, q) /\ q \notin buy_file



\* C22: a pair that is in the SELL watchlist when its process_pair runs and
\* whose last closed bar has a bearish Supertrend state gets a sell_signal
\* from process_pair; symmetrically a pair in the BUY watchlist with a
\* bullish state gets a buy_signal.
RBS_Returns(p) == wpc[p] = "flip_buy" /\ wpc'[p] = "end"
RBS_Returned(list, action) == \E i \in DOMAIN list : list[i].action = action

C22_FlipConfirmation ==
    [][\A p \in Pairs :
          (script = "ReversalBuySell" /\ RBS_Returns(p)) =>
              LET st_state == RBS_last_closed(market[p]).supertrend
              IN /\ (find_entry(p, sell_file) /\ ~st_state)
                        => RBS_Returned(result'[p].list, "sell_signal")
                 /\ (find_entry(p, buy_file) /\ st_state)
                        => RBS_Returned(result'[p].list, "buy_signal")]_vars



\* C24: with each pair scanned once per cycle and the worker tasks
\* interleaving arbitrarily, after any sequence of cycles no pair is in both
\* the persisted ReversalBuy and ReversalSell watchlists and no pair is
\* twice in one list.
EntriesOf(watch, p) == Cardinality({i \in DOMAIN watch : watch[i].pair = p})

C24_SideExclusion ==
    script = "ReversalBuySell" =>
        \A p \in Pairs :
            /\ ~(find_entry(p, buy_file) /\ find_entry(p, sell_file))
            /\ EntriesOf(buy_file, p) <= 1
            /\ EntriesOf(sell_file, p) <= 1



\* C27: when process_pair tasks for different pairs run concurrently, after
\* all tasks complete every pair whose invalidation condition held in its own
\* task (it was in the SELL watchlist with a bearish state, or in the BUY
\* watchlist with a bullish state) is absent from that watchlist as it is
\* persisted: no removal is undone by another task's stale write.
RBS_Scanned(p) == task[p] = "process_pair" /\ market[p].kind = "df"

C27_RemovalsPersist ==
    [][(script = "ReversalBuySell" /\ CycleEnds) =>
        \A p \in Pairs :
            RBS_Scanned(p) =>
                LET st_state == RBS_last_closed(market[p]).supertrend
                IN /\ (find_entry(p, sell_file) /\ ~st_state) => ~find_entry(p, sell_file')
                   /\ (find_entry(p, buy_file) /\ st_state) => ~find_entry(p, buy_file')]_vars

=============================================================================
